---- MODULE Spec2Model ----
(***************************************************************************)
(* Wallet-connection widget: the two ConnectWalletButton controllers       *)
(* (extension-only and WalletConnect-enabled), the wallet provider         *)
(* registry and the WalletConnect session manager (walletConnectSetup).    *)
(*                                                                         *)
(* Every handler is modelled up to its next await: one action per          *)
(* synchronous stretch of code.  The replies of the injected wallet        *)
(* object and of the WalletConnect SDK are the environment's choice.       *)
(***************************************************************************)
EXTENDS Integers, Sequences, FiniteSets, TLC

\* ------------------------------------------------------------------ bounds
\* longest account list a provider reports
MaxAccounts == 2
\* connectWallet invocations that can be pending at the same time
MaxConnects == 2
\* accountsChanged handlers counted on one emitter (the count saturates here)
MaxListeners == 2
\* EthereumProvider instances the SDK creates between two page loads
MaxSessions == 2
\* session manager calls that can be pending at the same time
MaxCalls == 2

\* ------------------------------------------------------------------ values
Null == "null"

\* the accounts of the user's wallet, in the order they were created
Addr == <<"a1", "a2", "a3">>

\* the list a wallet exposing its first n accounts reports: the account selected
\* last comes first
Exposed(n) == [i \in 1..n |-> Addr[n + 1 - i]]

\* the account lists a provider reports, at most MaxAccounts long
AccountLists == {Exposed(n) : n \in 0..MaxAccounts}

NonEmptyLists == {l \in AccountLists : Len(l) > 0}

\* chain ids the injected wallet reports (eth_chainId, chainChanged): hex strings
EthChainIds == {"0x1", "0x89"}

\* chain ids a WalletConnect session reports: numbers; 0 stands for "no chainId"
WcChainIds == {1, 137}

\* error codes a rejected request carries; 0 stands for an error without code
ErrorCodes == {4001, 0}

HexDigits == <<"0", "1", "2", "3", "4", "5", "6", "7", "8", "9", "a", "b", "c", "d", "e", "f">>

RECURSIVE toString16(_)
toString16(n) ==
  IF n < 16 THEN HexDigits[n + 1]
  ELSE toString16(n \div 16) \o HexDigits[(n % 16) + 1]

\* `0x${chainId.toString(16)}`
HexChainId(n) == "0x" \o toString16(n)

\* A chain id handed to a switch operation is a string; it is written here as
\* the sequence of its characters, e.g. <<"0", "x", "8", "9">> for "0x89".
NaN == -1

\* String.prototype.toLowerCase, for the letters chain ids are written with
lowerCase(c) ==
  CASE c = "A" -> "a" [] c = "B" -> "b" [] c = "C" -> "c" [] c = "D" -> "d"
    [] c = "E" -> "e" [] c = "F" -> "f" [] c = "X" -> "x" [] OTHER -> c

toLowerCase(cs) == [i \in 1..Len(cs) |-> lowerCase(cs[i])]

\* the value of a character as a digit, in either case, 16 when it is no digit
\* of any radix used
digitValue(c) ==
  IF \E d \in 0..15 : HexDigits[d + 1] = lowerCase(c)
  THEN CHOOSE d \in 0..15 : HexDigits[d + 1] = lowerCase(c)
  ELSE 16

\* the number the longest prefix of cs made of digits of the radix stands for
RECURSIVE leadingDigits(_, _, _)
leadingDigits(cs, radix, acc) ==
  IF cs = <<>> \/ digitValue(Head(cs)) >= radix THEN acc
  ELSE leadingDigits(Tail(cs), radix, acc * radix + digitValue(Head(cs)))

\* chainId.startsWith('0x')
startsWith0x(cs) == Len(cs) >= 2 /\ cs[1] = "0" /\ cs[2] = "x"

\* parseInt(string, radix): an optional 0x prefix is skipped for radix 16, the
\* digits that follow are read up to the first character that is none
parseInt(cs, radix) ==
  LET ds == IF radix = 16 /\ startsWith0x(toLowerCase(cs)) THEN SubSeq(cs, 3, Len(cs)) ELSE cs
  IN IF ds = <<>> \/ digitValue(Head(ds)) >= radix THEN NaN
     ELSE leadingDigits(ds, radix, 0)

\* Number(string) of a string without 0x prefix: its decimal value, NaN when a
\* character is no decimal digit
Number(cs) ==
  IF cs = <<>> THEN 0
  ELSE IF \A i \in 1..Len(cs) : digitValue(cs[i]) < 10 THEN leadingDigits(cs, 10, 0)
  ELSE NaN

\* the string a sequence of characters spells
RECURSIVE Spell(_)
Spell(cs) == IF cs = <<>> THEN "" ELSE Head(cs) \o Spell(Tail(cs))

\* the ids of the chain registry (types/chains.ts)
chains ==
  << <<"0", "x", "1">>, <<"0", "x", "8", "9">>, <<"0", "x", "a">>,
     <<"0", "x", "a", "4", "b", "1">> >>

\* the names of the chains of the registry, in its order
chainNames == <<"Ethereum", "Polygon", "Optimism", "Arbitrum">>

getNumericChainIds == {parseInt(chains[i], 16) : i \in 1..Len(chains)}

\* the chain ids a caller asks a switch for: Ethereum and Polygon of the
\* registry, one of no registry, and Optimism in decimal notation
ChainIdInputs == {chains[1], chains[2], <<"0", "x", "5">>, <<"1", "0">>}

\* the chain ids the controller is asked to switch to and then displays: those
\* above and Optimism written with a capital digit
SwitchChainInputs == ChainIdInputs \cup {<<"0", "x", "A">>}

\* targetChainId of switchEthereumChain and of switchChain
targetChainId(cs) == IF startsWith0x(cs) THEN parseInt(cs, 16) ELSE Number(cs)

Min(a, b) == IF a < b THEN a ELSE b

\* ------------------------------------------------------------------ registries
\* types/wallet-providers.ts: the extension-only registry
walletProvidersExt == <<"metamask", "coinbase", "brave">>

\* the registry with the WalletConnect descriptor appended
walletProvidersWc == <<"metamask", "coinbase", "brave", "walletconnect">>

\* a registry in which every descriptor carries the installUrl of the first one
installUrlOfFirst(p) == "https://metamask.io/download/"

installUrl(p) ==
  CASE p = "metamask" -> "https://metamask.io/download/"
    [] p = "coinbase" -> "https://www.coinbase.com/wallet/downloads"
    [] p = "brave" -> "https://brave.com/download/"
    [] OTHER -> "https://walletconnect.com/"

\* window.ethereum as the page sees it: absent, or an object with vendor flags;
\* removeAllListeners is an optional method of the object
NoEthereum ==
  [present |-> FALSE, isMetaMask |-> FALSE, isCoinbaseWallet |-> FALSE,
   isBraveWallet |-> FALSE, removeAllListeners |-> FALSE]

MetaMaskObject ==
  [NoEthereum EXCEPT !.present = TRUE, !.isMetaMask = TRUE, !.removeAllListeners = TRUE]

\* an injected object without removeAllListeners
CoinbaseObject == [NoEthereum EXCEPT !.present = TRUE, !.isCoinbaseWallet = TRUE]

EthereumObjects == {NoEthereum, MetaMaskObject, CoinbaseObject}

VARIABLES
  variant,               \* which controller the page mounts: "ext" or "wc"
  ethereum,              \* window.ethereum
  localStorage,          \* the two persisted flags; TRUE is the stored string 'true', FALSE is absent
  account, accounts, currentChain, menuOpen, menuTab,     \* useState of both controllers
  currentWallet, connecting,                              \* useState of the extension-only controller
  walletProvider, isLoading, isDisconnecting,             \* useState of the WalletConnect-enabled controller
  provider, providerInitializing, providerInitPromise,    \* module variables of walletConnectSetup
  walletConnectModal,
  manuallyDisconnected,  \* the module constant read from localStorage when the page loads
  ethListeners,          \* accountsChanged/chainChanged handler pairs registered on window.ethereum
  interval,              \* the 3 s checkIfStillConnected interval is set
  checks,                \* checkConnection runs waiting for a reply of window.ethereum
  sessions,              \* the EthereumProvider instances created so far
  calls,                 \* pending calls of the session manager
  conn,                  \* pending connectWallet invocations
  modalOpen,             \* the QR modal is shown
  loadingTimer,          \* the 500 ms timer of the modal subscription is pending
  last                   \* the step taken last, and what it was given

uiVars == <<account, accounts, currentChain, menuOpen, menuTab, currentWallet, connecting,
            walletProvider, isLoading, isDisconnecting>>
smVars == <<provider, providerInitializing, providerInitPromise, walletConnectModal>>
effVars == <<ethListeners, interval, checks>>
envVars == <<variant, ethereum, manuallyDisconnected>>
procVars == <<sessions, calls, conn, modalOpen, loadingTimer>>
vars == <<envVars, localStorage, uiVars, smVars, effVars, procVars, last>>

\* ------------------------------------------------------------------ program state as one value
\* The handlers below are functions from the program state to the program state.
State ==
  [ account |-> account, accounts |-> accounts, currentChain |-> currentChain,
    menuOpen |-> menuOpen, menuTab |-> menuTab,
    currentWallet |-> currentWallet, connecting |-> connecting,
    walletProvider |-> walletProvider, isLoading |-> isLoading,
    isDisconnecting |-> isDisconnecting,
    localStorage |-> localStorage,
    provider |-> provider, providerInitializing |-> providerInitializing,
    providerInitPromise |-> providerInitPromise,
    walletConnectModal |-> walletConnectModal,
    ethListeners |-> ethListeners, interval |-> interval, checks |-> checks,
    modalOpen |-> modalOpen, loadingTimer |-> loadingTimer ]

Commit(s) ==
  /\ account' = s.account
  /\ accounts' = s.accounts
  /\ currentChain' = s.currentChain
  /\ menuOpen' = s.menuOpen
  /\ menuTab' = s.menuTab
  /\ currentWallet' = s.currentWallet
  /\ connecting' = s.connecting
  /\ walletProvider' = s.walletProvider
  /\ isLoading' = s.isLoading
  /\ isDisconnecting' = s.isDisconnecting
  /\ localStorage' = s.localStorage
  /\ provider' = s.provider
  /\ providerInitializing' = s.providerInitializing
  /\ providerInitPromise' = s.providerInitPromise
  /\ walletConnectModal' = s.walletConnectModal
  /\ ethListeners' = s.ethListeners
  /\ interval' = s.interval
  /\ checks' = s.checks
  /\ modalOpen' = s.modalOpen
  /\ loadingTimer' = s.loadingTimer

NoStorage == [walletManuallyDisconnected |-> FALSE, walletConnectionActive |-> FALSE]

\* what a step records in `last`: the handler that ran, and for the steps that
\* end a connectWallet invocation the provider id it was called with, the list
\* the provider returned, the error code it threw, the account at the time of
\* the call and the URL given to window.open
Step(op) ==
  [op |-> op, pid |-> Null, list |-> <<>>, before |-> Null, code |-> 0, url |-> Null,
   chain |-> <<>>, nth |-> 0]

Did(op, pid, list) == [Step(op) EXCEPT !.pid = pid, !.list = list]

Failed(op, code) == [Step(op) EXCEPT !.code = code]

\* the record of a handleDisconnect that has settled: the provider id and the
\* account it found, and whether it is the first run (1) or follows another
\* settled run directly (2)
Disconnected(pid) ==
  [Did("handleDisconnect", pid, <<>>) EXCEPT
     !.before = account, !.nth = IF last.op = "handleDisconnect" THEN 2 ELSE 1]

\* detectInstalled of a descriptor
detectInstalled(p) ==
  CASE p = "metamask" -> ethereum.present /\ ethereum.isMetaMask
    [] p = "coinbase" -> ethereum.present /\ ethereum.isCoinbaseWallet
    [] p = "brave" -> ethereum.present /\ ethereum.isBraveWallet
    [] OTHER -> TRUE

\* "for (const p of walletProviders) if (p.detectInstalled()) { setCurrentWallet(p.id); break; }"
RECURSIVE firstInstalled(_, _)
firstInstalled(list, dflt) ==
  IF list = <<>> THEN dflt
  ELSE IF detectInstalled(Head(list)) THEN Head(list)
  ELSE firstInstalled(Tail(list), dflt)

\* ------------------------------------------------------------------ processes
IdleConn == [pc |-> "idle", pid |-> Null, list |-> <<>>, before |-> Null]

ConnIds == 1..MaxConnects
SessionIds == 1..MaxSessions
CallIds == 1..MaxCalls

\* who waits for a session manager call: a caller outside the controller, the
\* connectWallet invocation c (1..MaxConnects), or the user's handleDisconnect
Client == 0
UserOwner == MaxConnects + 1

\* ... or a requestConnection of the walletconnect descriptor: in its try block,
\* or in the fallback of its catch block
Descriptor == MaxConnects + 2
DescriptorFallback == MaxConnects + 3

\* ... or the "Change Wallet" button of the WalletConnect-enabled controller
ChangeOwner == MaxConnects + 4

\* the 500 ms wait of "Change Wallet" between handleDisconnect and
\* openWalletConnectModal (ConnectWalletButton.tsx lines 1164-1171)
ChangeDelay ==
  [kind |-> "change", pc |-> "delay", sess |-> 0, owner |-> ChangeOwner, timer |-> "off",
   chain |-> <<>>, before |-> Null]

\* an EthereumProvider instance: state of its construction, what it reports,
\* whether its session is established, whether a connect() on it is outstanding,
\* how many accountsChanged handlers of the controller are registered on it
\* (the count saturates at MaxListeners) and whether one of them belongs to the
\* component that is mounted now
NoSession ==
  [state |-> "unused", accounts |-> <<>>, chainId |-> 0, connected |-> FALSE, connect |-> "none",
   handlers |-> 0, mounted |-> FALSE]

\* a pending call of the session manager: which function, where it waits, the
\* instance it waits for, who called it, and the state of the 30 s timer of a flow
IdleCall == [kind |-> "none", pc |-> "idle", sess |-> 0, owner |-> 0, timer |-> "off", chain |-> <<>>, before |-> Null]

\* An instance is held while the module variables, a pending call or an
\* unsettled SDK call refer to it.
Held(i, tbl, s, cl) ==
  \/ s.provider = i
  \/ s.providerInitPromise = i
  \/ tbl[i].state = "initializing"
  \/ tbl[i].connect = "pending"
  \/ \E k \in CallIds : cl[k].pc # "idle" /\ cl[k].sess = i

\* An instance nothing holds can still reach the page through the handlers
\* registered on it, as long as its session is established.
Notifies(i, tbl) == tbl[i].connected /\ tbl[i].handlers > 0

\* The page cannot reach an instance that is neither held nor notifies: its
\* record is dropped.  What an instance reports (accounts, chainId) is recorded
\* while a handler of the mounted component follows it; of any other instance
\* the page learns it when it asks (ReadSession).
Collect(tbl, s, cl) ==
  [i \in SessionIds |->
     IF ~Held(i, tbl, s, cl) /\ ~Notifies(i, tbl) THEN NoSession
     ELSE IF tbl[i].mounted THEN tbl[i]
     ELSE [tbl[i] EXCEPT !.accounts = <<>>, !.chainId = 0]]

\* what instance p (0: none) can report when the page reads its accounts and
\* its chainId: pairs <<list, chain id>>
ReadSession(p) ==
  IF p = 0 \/ ~sessions[p].connected THEN {<<(<<>>), 0>>}
  ELSE IF sessions[p].mounted THEN {<<sessions[p].accounts, sessions[p].chainId>>}
  ELSE AccountLists \X WcChainIds

\* the instances after a step that left them as tbl; it is the last conjunct of
\* its action, after the program state and the calls of the next state
Sessions(tbl) == sessions' = Collect(tbl, State', calls')

\* the instance the next EthereumProvider.init constructs once the program state
\* is s: the first record that is unused or that nothing references any more
FreeSession(s) ==
  LET tbl == Collect(sessions, s, calls)
  IN {i \in SessionIds : tbl[i].state = "unused"
                          /\ \A j \in 1..(i - 1) : tbl[j].state # "unused"}

\* the record of an instance whose construction has started
NewSession == [NoSession EXCEPT !.state = "initializing"]

FreeCall == {k \in CallIds : calls[k].pc = "idle" /\ \A j \in 1..(k - 1) : calls[j].pc # "idle"}

\* the slot a new connectWallet invocation takes
FreeConn == {c \in ConnIds : conn[c].pc = "idle" /\ \A d \in 1..(c - 1) : conn[d].pc # "idle"}

\* ================================================================== extension-only controller
\* ConnectWalletButton.tsx, first component (lines 9-560)

\* the two effects of the component, run after a commit that changed their dependency
\*   [currentWallet]: checkConnection() and the registration of the listeners
\*   [account]: the checkIfStillConnected interval
extEffects(old, new) ==
  LET ls == new.localStorage
      manual == ls.walletManuallyDisconnected
      s1 == IF new.currentWallet # old.currentWallet
            THEN [new EXCEPT
                    !.checks = IF ~manual /\ ethereum.present /\ ls.walletConnectionActive
                               THEN @ \cup {[stage |-> "accounts",
                                             walletUnset |-> new.currentWallet = Null]}
                               ELSE @,
                    !.ethListeners = IF ethereum.present /\ ~manual
                                     THEN Min(@ + 1, MaxListeners) ELSE @]
            ELSE new
  IN IF new.account # old.account THEN [s1 EXCEPT !.interval = ~manual] ELSE s1

\* state of a freshly mounted component, before its effects
Unmounted(ls) ==
  [ account |-> Null, accounts |-> <<>>, currentChain |-> Null,
    menuOpen |-> FALSE, menuTab |-> "networks",
    currentWallet |-> Null, connecting |-> FALSE,
    walletProvider |-> Null, isLoading |-> FALSE, isDisconnecting |-> FALSE,
    localStorage |-> ls,
    provider |-> 0, providerInitializing |-> FALSE, providerInitPromise |-> 0,
    walletConnectModal |-> FALSE,
    ethListeners |-> 0, interval |-> FALSE, checks |-> {},
    modalOpen |-> FALSE, loadingTimer |-> FALSE ]

\* first render of the extension-only component: both effects run
extMount(ls, eth) ==
  LET s == Unmounted(ls)
      manual == ls.walletManuallyDisconnected
  IN [s EXCEPT
        !.checks = IF ~manual /\ eth.present /\ ls.walletConnectionActive
                   THEN {[stage |-> "accounts", walletUnset |-> TRUE]} ELSE {},
        !.ethListeners = IF eth.present /\ ~manual THEN 1 ELSE 0,
        !.interval = ~manual]

\* handleDisconnect (lines 338-412); the 1 s timer it sets only logs
extHandleDisconnect(s) ==
  [s EXCEPT !.localStorage = [walletManuallyDisconnected |-> TRUE,
                              walletConnectionActive |-> FALSE],
            !.account = Null, !.accounts = <<>>, !.currentChain = Null,
            !.currentWallet = Null, !.menuOpen = FALSE, !.menuTab = "networks",
            !.ethListeners = IF ethereum.present /\ ethereum.removeAllListeners THEN 0 ELSE @]

\* the "finally" of connectWallet (lines 249-252)
extFinally(s) == [s EXCEPT !.connecting = FALSE, !.menuOpen = FALSE]

\* "Update current wallet detection" (lines 239-245)
extDetect(s) == [s EXCEPT !.currentWallet = firstInstalled(walletProvidersExt, @)]

ExtKeep == UNCHANGED <<envVars, sessions, calls>>

\* connectWallet from the provider lookup on (lines 185-203), after the optional
\* forced disconnect: ends at once for a provider that is not installed, else
\* leaves the invocation waiting for the first reply of requestConnection
ExtConnectBody(c, s0, p, before) ==
  LET s1 == [s0 EXCEPT !.connecting = TRUE, !.currentWallet = p]
  IN IF ~detectInstalled(p)
     THEN /\ Commit(extEffects(State, extFinally(s1)))
          /\ conn' = [conn EXCEPT ![c] = IdleConn]
          /\ last' = [Step("notInstalled") EXCEPT !.pid = p, !.before = before,
                                                   !.url = installUrl(p)]
     ELSE /\ Commit(extEffects(State, s1))
          /\ conn' = [conn EXCEPT ![c] = [IdleConn EXCEPT
                        !.pc = IF p = "metamask" THEN "perm" ELSE "req",
                        !.pid = p]]
          /\ last' = Step("connectWallet")

\* connectWallet(providerId), lines 174-183: the call up to its first await
ExtConnectWallet(p) ==
  /\ variant = "ext"
  /\ \E c \in FreeConn :
       LET s0 == [State EXCEPT !.localStorage.walletManuallyDisconnected = FALSE]
       IN IF account # Null
          THEN /\ Commit(extEffects(State, extHandleDisconnect(s0)))
               /\ conn' = [conn EXCEPT ![c] = [IdleConn EXCEPT
                             !.pc = "delay", !.pid = p, !.before = account]]
               /\ last' = Step("connectWallet")
          ELSE ExtConnectBody(c, s0, p, account)
  /\ ExtKeep

\* the 300 ms delay after the forced disconnect has elapsed
ExtConnectDelay(c) ==
  /\ variant = "ext"
  /\ conn[c].pc = "delay"
  /\ ExtConnectBody(c, State, conn[c].pid, conn[c].before)
  /\ ExtKeep

\* reply to wallet_requestPermissions (metamask descriptor, wallet-providers.ts 22-35):
\* a rejection is caught by the descriptor, which then returns null
ExtPermissionReply(c, granted) ==
  /\ variant = "ext"
  /\ conn[c].pc = "perm"
  /\ IF granted
     THEN /\ conn' = [conn EXCEPT ![c].pc = "req"]
          /\ last' = Step("permissionGranted")
          /\ UNCHANGED <<localStorage, uiVars, smVars, effVars, modalOpen, loadingTimer>>
     ELSE /\ Commit(extEffects(State, extFinally(extDetect(State))))
          /\ conn' = [conn EXCEPT ![c] = IdleConn]
          /\ last' = Failed("connectNull", 4001)
  /\ ExtKeep

\* eth_requestAccounts resolved with l (lines 206-215)
ExtAccountsReply(c, l) ==
  /\ variant = "ext"
  /\ conn[c].pc = "req"
  /\ IF Len(l) > 0
     THEN /\ Commit(extEffects(State, [State EXCEPT !.accounts = l, !.account = l[1]]))
          /\ conn' = [conn EXCEPT ![c].pc = "chain", ![c].list = l]
          /\ last' = Step("accountsReturned")
     ELSE /\ Commit(extEffects(State, extFinally(extDetect(State))))
          /\ conn' = [conn EXCEPT ![c] = IdleConn]
          /\ last' = Step("connectEmpty")
  /\ ExtKeep

\* eth_requestAccounts rejected: the rejection leaves the descriptor and reaches
\* the catch of connectWallet (lines 246-248)
ExtAccountsRejected(c, code) ==
  /\ variant = "ext"
  /\ conn[c].pc = "req"
  /\ Commit(extEffects(State, extFinally([State EXCEPT !.currentWallet = Null])))
  /\ conn' = [conn EXCEPT ![c] = IdleConn]
  /\ last' = Failed("connectRejected", code)
  /\ ExtKeep

\* eth_chainId resolved (lines 213-218, 239-245)
ExtChainReply(c, chain) ==
  /\ variant = "ext"
  /\ conn[c].pc = "chain"
  /\ Commit(extEffects(State, extFinally(extDetect(
       [State EXCEPT !.currentChain = chain,
                     !.localStorage.walletConnectionActive = TRUE]))))
  /\ conn' = [conn EXCEPT ![c] = IdleConn]
  /\ last' = Did("connected", conn[c].pid, conn[c].list)
  /\ ExtKeep

\* eth_chainId rejected: caught at lines 246-248, after the accounts were set
ExtChainRejected(c) ==
  /\ variant = "ext"
  /\ conn[c].pc = "chain"
  /\ Commit(extEffects(State, extFinally([State EXCEPT !.currentWallet = Null])))
  /\ conn' = [conn EXCEPT ![c] = IdleConn]
  /\ last' = Did("connectChainFailed", conn[c].pid, conn[c].list)
  /\ ExtKeep

\* handleDisconnect called by the user (Disconnect button, lines 544-554)
ExtHandleDisconnect ==
  /\ variant = "ext"
  /\ Commit(extEffects(State, extHandleDisconnect(State)))
  /\ last' = Disconnected(currentWallet)
  /\ UNCHANGED conn
  /\ ExtKeep

\* the accountsChanged handler registered at lines 91-103
extAccountsChanged(s, l) ==
  IF Len(l) > 0
  THEN [s EXCEPT !.accounts = l, !.account = l[1],
                 !.localStorage.walletConnectionActive = TRUE]
  ELSE [s EXCEPT !.accounts = l, !.account = Null, !.currentWallet = Null,
                 !.localStorage.walletConnectionActive = FALSE]

\* window.ethereum emits accountsChanged while a handler is registered
ExtAccountsChanged(l) ==
  /\ variant = "ext"
  /\ ethListeners > 0
  /\ Commit(extEffects(State, extAccountsChanged(State, l)))
  /\ last' = Step("accountsChanged")
  /\ UNCHANGED conn
  /\ ExtKeep

\* window.ethereum emits chainChanged (lines 106-108)
ExtChainChanged(chain) ==
  /\ variant = "ext"
  /\ ethListeners > 0
  /\ chain # currentChain
  /\ Commit([State EXCEPT !.currentChain = chain])
  /\ last' = Step("chainChanged")
  /\ UNCHANGED conn
  /\ ExtKeep

\* checkConnection (lines 44-85): eth_accounts resolved with l
ExtCheckAccounts(k, l) ==
  /\ variant = "ext"
  /\ k \in checks /\ k.stage = "accounts"
  /\ LET s0 == [State EXCEPT !.checks = @ \ {k}, !.accounts = l]
     IN IF Len(l) > 0
        THEN Commit(extEffects(State,
               [s0 EXCEPT !.account = l[1], !.checks = @ \cup {[k EXCEPT !.stage = "chain"]}]))
        ELSE Commit(extEffects(State, [s0 EXCEPT !.localStorage.walletConnectionActive = FALSE]))
  /\ last' = Step("checkConnection")
  /\ UNCHANGED conn
  /\ ExtKeep

\* checkConnection: eth_chainId resolved (lines 60-73); line 71 reads the
\* currentWallet of the render that started the effect
ExtCheckChain(k, chain) ==
  /\ variant = "ext"
  /\ k \in checks /\ k.stage = "chain"
  /\ LET s0 == [State EXCEPT !.checks = @ \ {k}, !.currentChain = chain]
         s1 == extDetect(s0)
     IN Commit(extEffects(State,
          IF k.walletUnset /\ ethereum.present
          THEN [s1 EXCEPT !.currentWallet = "metamask"] ELSE s1))
  /\ last' = Step("checkConnectionDone")
  /\ UNCHANGED conn
  /\ ExtKeep

\* checkConnection: either request rejected (lines 79-83)
ExtCheckRejected(k) ==
  /\ variant = "ext"
  /\ k \in checks
  /\ Commit([State EXCEPT !.checks = @ \ {k},
                          !.localStorage.walletConnectionActive = FALSE])
  /\ last' = Step("checkConnectionFailed")
  /\ UNCHANGED conn
  /\ ExtKeep

\* checkIfStillConnected (lines 131-156) finds that the wallet reports no account
ExtCheckIfStillConnected ==
  /\ variant = "ext"
  /\ interval /\ ethereum.present /\ account # Null
  /\ Commit(extEffects(State,
       [State EXCEPT !.account = Null, !.accounts = <<>>, !.currentChain = Null,
                     !.currentWallet = Null, !.menuOpen = FALSE, !.menuTab = "networks"]))
  /\ last' = Step("checkIfStillConnected")
  /\ UNCHANGED conn
  /\ ExtKeep

\* ================================================================== session manager
\* utils/walletConnectSetup (Layout.tsx lines 919-1359)

\* modal.closeModal(): a modal that was open reports its new state to the
\* subscriber of the mounted controller (lines 664-675), which starts its 500 ms timer
closeModal(s) ==
  [s EXCEPT !.modalOpen = FALSE,
            !.loadingTimer = IF s.modalOpen /\ variant = "wc" THEN TRUE ELSE @]

\* initWalletConnectModal (lines 960-988)
initWalletConnectModal(s) == [s EXCEPT !.walletConnectModal = TRUE]

\* resetProvider (lines 1106-1124)
resetProvider(s) ==
  LET s1 == [s EXCEPT !.provider = 0, !.providerInitializing = FALSE,
                      !.providerInitPromise = 0,
                      !.localStorage.walletManuallyDisconnected = FALSE]
  IN IF s1.walletConnectModal
     THEN [closeModal(s1) EXCEPT !.walletConnectModal = FALSE]
     ELSE s1

\* initEthereumProvider up to its await (lines 991-1015); i is the instance a new
\* EthereumProvider.init would construct.  how = "existing": the session is
\* returned; "shared": the caller is given the promise in flight; "created": a
\* new promise was made and EthereumProvider.init was called
initEthereumProvider(s, i) ==
  LET s1 == IF manuallyDisconnected THEN resetProvider(s) ELSE s
  IN IF s1.provider # 0
     THEN [st |-> s1, how |-> "existing", sess |-> s1.provider]
     ELSE IF s1.providerInitializing /\ s1.providerInitPromise # 0
     THEN [st |-> s1, how |-> "shared", sess |-> s1.providerInitPromise]
     ELSE [st |-> [s1 EXCEPT !.providerInitializing = TRUE, !.providerInitPromise = i],
           how |-> "created", sess |-> i]

\* disconnectWalletConnect up to its await (lines 1307-1315)
disconnectWalletConnect(s) == closeModal(initWalletConnectModal(s))

\* ================================================================== WalletConnect-enabled controller
\* ConnectWalletButton.tsx, second component (lines 561-1222)

\* disconnectWallet (lines 582-602) and resetState (lines 965-986)
resetState(s) ==
  [s EXCEPT !.account = Null, !.accounts = <<>>, !.currentChain = Null,
            !.walletProvider = Null, !.menuOpen = FALSE, !.menuTab = "networks"]

\* a handleDisconnect that marks the manual disconnect for every provider
handleDisconnectMarksAlways(s) ==
  IF s.walletProvider = "walletconnect"
  THEN disconnectWalletConnect(
         [s EXCEPT !.isDisconnecting = TRUE,
                   !.localStorage.walletManuallyDisconnected = TRUE])
  ELSE [s EXCEPT !.isDisconnecting = TRUE,
                 !.localStorage.walletManuallyDisconnected = TRUE]

\* handleDisconnect up to the await of disconnectWalletConnect (lines 991-1001)
handleDisconnectStart(s) ==
  IF s.walletProvider = "walletconnect"
  THEN disconnectWalletConnect(
         [s EXCEPT !.isDisconnecting = TRUE,
                   !.localStorage.walletManuallyDisconnected = TRUE])
  ELSE [s EXCEPT !.isDisconnecting = TRUE]

\* the rest of handleDisconnect: the finally of the walletconnect branch
\* (lines 1008-1015) or the else branch (lines 1016-1022)
handleDisconnectEnd(s, wasWalletConnect) ==
  LET s1 == [resetState(s) EXCEPT !.localStorage.walletConnectionActive = FALSE]
      s2 == IF wasWalletConnect THEN resetProvider(s1) ELSE s1
  IN [s2 EXCEPT !.isDisconnecting = FALSE]

\* the "finally" of connectWallet (lines 793-796)
wcFinally(s) == [s EXCEPT !.menuOpen = FALSE, !.isLoading = FALSE]

\* connectWallet after initiateWalletConnectFlow resolved with l (lines 717-730);
\* the chain is read from the session the module variable holds at that time
flowResolved(s, l, n) ==
  LET chain == IF s.provider # 0 /\ n # 0 THEN HexChainId(n) ELSE s.currentChain
  IN wcFinally([s EXCEPT !.accounts = l, !.account = l[1], !.currentChain = chain,
                         !.walletProvider = "walletconnect",
                         !.localStorage.walletConnectionActive = TRUE])

\* connectWallet after initiateWalletConnectFlow rejected (lines 735-740, 790-796)
flowRejected(s) == wcFinally([s EXCEPT !.walletProvider = Null])

\* connectWallet after requestConnection resolved with l, null included as the
\* empty list (lines 758-776)
connectionReturned(s, l) ==
  IF Len(l) > 0
  THEN wcFinally([s EXCEPT !.accounts = l, !.account = l[1],
                           !.localStorage.walletConnectionActive = TRUE])
  ELSE wcFinally([s EXCEPT !.walletProvider = Null])

\* connectWallet after requestConnection rejected (lines 777-788)
connectionRejected(s) == wcFinally([s EXCEPT !.walletProvider = Null])

\* what the caller of a session manager call does when the call resolved with l
OwnerResolved(s, owner, l, n) == IF owner \in ConnIds THEN flowResolved(s, l, n) ELSE s

\* ... and when it rejected
OwnerRejected(s, owner) == IF owner \in ConnIds THEN flowRejected(s) ELSE s

\* connectWallet from the provider lookup on (lines 699-757), after the optional
\* forced disconnect
WcConnectBody(c, s0, p, before) ==
  LET s1 == [s0 EXCEPT !.walletProvider = p]
      slot == [IdleConn EXCEPT !.pid = p, !.before = before]
  IN IF p = "walletconnect"
     THEN \* initiateWalletConnectFlow up to the await of initEthereumProvider (lines 1130-1138)
          \E i \in FreeSession(resetProvider(s1)), k \in FreeCall :
            LET r == initEthereumProvider(resetProvider(s1), i)
            IN /\ r.how = "created"
               /\ Commit(r.st)
               /\ calls' = [calls EXCEPT ![k] =
                              [kind |-> "flow", pc |-> "init", sess |-> i, owner |-> c, timer |-> "off", chain |-> <<>>, before |-> Null]]
               /\ conn' = [conn EXCEPT ![c] = [slot EXCEPT !.pc = "flow"]]
               /\ last' = Step("connectWallet")
               /\ Sessions([sessions EXCEPT ![i] = NewSession])
     ELSE IF ~detectInstalled(p)
     THEN /\ Commit(wcFinally(s1))
          /\ conn' = [conn EXCEPT ![c] = IdleConn]
          /\ last' = [Step("notInstalled") EXCEPT !.pid = p, !.before = before,
                                                   !.url = installUrl(p)]
          /\ UNCHANGED calls
          /\ Sessions(sessions)
     ELSE /\ Commit(s1)
          /\ conn' = [conn EXCEPT ![c] =
                        [slot EXCEPT !.pc = IF p = "metamask" THEN "perm" ELSE "req"]]
          /\ last' = Step("connectWallet")
          /\ UNCHANGED calls
          /\ Sessions(sessions)

\* connectWallet(providerId), lines 685-697: the call up to its first await.
\* The connect affordances are disabled while isLoading (lines 1037, 1177).
WcConnectWallet(p) ==
  /\ variant = "wc"
  /\ ~isLoading
  /\ \E c \in FreeConn :
       LET s0 == [State EXCEPT !.isLoading = TRUE,
                               !.localStorage.walletManuallyDisconnected = FALSE]
           slot == [IdleConn EXCEPT !.pid = p, !.before = account]
       IN IF account = Null
          THEN WcConnectBody(c, s0, p, account)
          ELSE IF walletProvider = "walletconnect" /\ provider # 0
          THEN \E k \in FreeCall :
                 /\ Commit(handleDisconnectStart(s0))
                 /\ calls' = [calls EXCEPT ![k] =
                         [kind |-> "disconnect", pc |-> "remote", sess |-> provider, owner |-> c, timer |-> "off", chain |-> <<>>, before |-> Null]]
                 /\ conn' = [conn EXCEPT ![c] = [slot EXCEPT !.pc = "disc"]]
                 /\ last' = Step("connectWallet")
                 /\ Sessions(sessions)
          ELSE /\ Commit(handleDisconnectEnd(handleDisconnectStart(s0),
                                             walletProvider = "walletconnect"))
               /\ conn' = [conn EXCEPT ![c] = [slot EXCEPT !.pc = "delay"]]
               /\ last' = Step("connectWallet")
               /\ UNCHANGED calls
               /\ Sessions(sessions)
  /\ UNCHANGED envVars

\* the 300 ms delay after the forced disconnect has elapsed (line 696)
WcConnectDelay(c) ==
  /\ variant = "wc"
  /\ conn[c].pc = "delay"
  /\ WcConnectBody(c, State, conn[c].pid, conn[c].before)
  /\ UNCHANGED envVars

\* reply to wallet_requestPermissions of the metamask descriptor: a rejection is
\* caught by the descriptor, which then returns null
WcPermissionReply(c, granted) ==
  /\ variant = "wc"
  /\ conn[c].pc = "perm"
  /\ IF granted
     THEN /\ conn' = [conn EXCEPT ![c].pc = "req"]
          /\ last' = Step("permissionGranted")
          /\ UNCHANGED <<localStorage, uiVars, smVars, effVars, modalOpen, loadingTimer>>
     ELSE /\ Commit(connectionReturned(State, <<>>))
          /\ conn' = [conn EXCEPT ![c] = IdleConn]
          /\ last' = Failed("connectNull", 4001)
  /\ UNCHANGED <<envVars, calls>>
  /\ Sessions(sessions)

\* eth_requestAccounts of an extension descriptor resolved with l
WcAccountsReply(c, l) ==
  /\ variant = "wc"
  /\ conn[c].pc = "req"
  /\ Commit(connectionReturned(State, l))
  /\ conn' = [conn EXCEPT ![c] = IdleConn]
  /\ last' = IF Len(l) > 0 THEN Did("connected", conn[c].pid, l) ELSE Step("connectEmpty")
  /\ UNCHANGED <<envVars, calls>>
  /\ Sessions(sessions)

\* eth_requestAccounts of an extension descriptor rejected
WcAccountsRejected(c, code) ==
  /\ variant = "wc"
  /\ conn[c].pc = "req"
  /\ Commit(connectionRejected(State))
  /\ conn' = [conn EXCEPT ![c] = IdleConn]
  /\ last' = Failed("connectRejected", code)
  /\ UNCHANGED <<envVars, calls>>
  /\ Sessions(sessions)

\* handleDisconnect called by the user (Disconnect button, lines 1195-1203,
\* disabled while isDisconnecting)
WcHandleDisconnect ==
  /\ variant = "wc"
  /\ ~isDisconnecting
  /\ IF walletProvider = "walletconnect" /\ provider # 0
     THEN \E k \in FreeCall :
            /\ Commit(handleDisconnectStart(State))
            /\ calls' = [calls EXCEPT ![k] =
                 [kind |-> "disconnect", pc |-> "remote", sess |-> provider, owner |-> UserOwner, timer |-> "off", chain |-> <<>>, before |-> Null]]
            /\ last' = Step("handleDisconnectStart")
     ELSE /\ Commit(handleDisconnectEnd(handleDisconnectStart(State),
                                        walletProvider = "walletconnect"))
          /\ last' = Disconnected(walletProvider)
          /\ UNCHANGED calls
  /\ UNCHANGED <<envVars, conn>>
  /\ Sessions(sessions)

\* the "Change Wallet" button (lines 1153-1178, rendered for walletconnect and
\* disabled while isLoading): isLoading is set, handleDisconnect is called and
\* the menu closed; once handleDisconnect has resolved a 500 ms timer is started
WcChangeWallet ==
  /\ variant = "wc"
  /\ walletProvider = "walletconnect" /\ account # Null
  /\ ~isLoading
  /\ \E k \in FreeCall :
       LET s0 == [State EXCEPT !.isLoading = TRUE]
       IN IF provider # 0
          THEN /\ Commit([handleDisconnectStart(s0) EXCEPT !.menuOpen = FALSE])
               /\ calls' = [calls EXCEPT ![k] =
                    [kind |-> "disconnect", pc |-> "remote", sess |-> provider,
                     owner |-> ChangeOwner, timer |-> "off", chain |-> <<>>, before |-> Null]]
          ELSE /\ Commit(handleDisconnectEnd(handleDisconnectStart(s0), TRUE))
               /\ calls' = [calls EXCEPT ![k] = ChangeDelay]
  /\ last' = Step("changeWallet")
  /\ UNCHANGED <<envVars, conn>>
  /\ Sessions(sessions)

\* the 500 ms timer of "Change Wallet" fires: openWalletConnectModal is called
\* (lines 1164-1166; Layout.tsx lines 1341-1348)
WcChangeDelay(k) ==
  /\ variant = "wc"
  /\ calls[k] = ChangeDelay
  /\ \E i \in FreeSession(resetProvider(State)) :
       LET r == initEthereumProvider(resetProvider(State), i)
       IN /\ r.how = "created"
          /\ Commit(r.st)
          /\ calls' = [calls EXCEPT ![k] =
                         [kind |-> "open", pc |-> "init", sess |-> i, owner |-> ChangeOwner,
                          timer |-> "off", chain |-> <<>>, before |-> Null]]
          /\ last' = Step("openWalletConnectModal")
          /\ UNCHANGED <<envVars, conn>>
          /\ Sessions([sessions EXCEPT ![i] = NewSession])

\* provider.disconnect() settled (lines 1313-1322), then the caller goes on
DisconnectReply(k, ok) ==
  /\ calls[k].kind = "disconnect" /\ calls[k].pc = "remote"
  /\ LET o == calls[k].owner
         i == calls[k].sess
         s1 == resetProvider(State)
     IN /\ Commit(IF o = Client THEN s1 ELSE handleDisconnectEnd(s1, TRUE))
        /\ conn' = IF o \in ConnIds THEN [conn EXCEPT ![o].pc = "delay"] ELSE conn
        /\ last' = IF o = UserOwner
                   THEN [Disconnected("walletconnect") EXCEPT !.code = IF ok THEN 0 ELSE 1]
                   ELSE Step(IF o = Client THEN "disconnectWalletConnect"
                             ELSE IF o = ChangeOwner THEN "changeDisconnected"
                             ELSE "forcedDisconnect")
        /\ calls' = [calls EXCEPT ![k] = IF o = ChangeOwner THEN ChangeDelay ELSE IdleCall]
        /\ UNCHANGED envVars
        /\ Sessions(IF ok
                    THEN [sessions EXCEPT ![i].connected = FALSE, ![i].accounts = <<>>]
                    ELSE sessions)

\* ------------------------------------------------------------------ replies of the WalletConnect SDK
\* what becomes of a call when openWalletConnectModal has returned: the
\* descriptor waits 500 ms (part_000 lines 80-82), any other caller is done
Opened(c) ==
  IF c.kind = "open" /\ c.owner = Descriptor
  THEN [IdleCall EXCEPT !.kind = "descriptor", !.pc = "delay", !.owner = Descriptor]
  ELSE IdleCall

\* what becomes of a call that failed: the try block of the descriptor enters
\* its catch (part_000 lines 86-90), any other caller is done
Rejected(c) ==
  IF c.owner = Descriptor
  THEN [IdleCall EXCEPT !.kind = "descriptor", !.pc = "catch", !.owner = DescriptorFallback]
  ELSE IdleCall

\* the calls waiting for the promise of instance i
Awaiting(i) == {k \in CallIds : calls[k].pc = "init" /\ calls[k].sess = i}

\* EthereumProvider.init resolved: the executor stores the instance (lines
\* 1042-1044) and the creator's finally clears the flag (line 1066); then every
\* caller goes on: the flow (lines 1142-1263) and openWalletConnectModal (line
\* 1351) call connect(), which shows the QR modal
SdkInitResolved(i) ==
  /\ sessions[i].state = "initializing"
  /\ LET connects == \E k \in Awaiting(i) : calls[k].kind \in {"flow", "open"}
     IN /\ Commit([State EXCEPT !.provider = i, !.providerInitializing = FALSE,
                                !.modalOpen = @ \/ connects])
        /\ calls' = [k \in CallIds |->
                       IF k \in Awaiting(i)
                       THEN IF calls[k].kind = "flow"
                            THEN [calls[k] EXCEPT !.pc = "connect", !.timer = "set"]
                            ELSE Opened(calls[k])
                       ELSE calls[k]]
        /\ last' = Step("initResolved")
        /\ UNCHANGED <<envVars, conn>>
        /\ Sessions([sessions EXCEPT ![i].state = "ready",
                                     ![i].connect = IF connects THEN "pending" ELSE @])

\* EthereumProvider.init rejected: the executor's catch (lines 1045-1053), the
\* creator's catch and finally (lines 1060-1067); every caller gets the error,
\* which carries no code
SdkInitRejected(i) ==
  /\ sessions[i].state = "initializing"
  /\ LET owners == {calls[k].owner : k \in Awaiting(i)} \cap ConnIds
         s0 == resetProvider([State EXCEPT !.provider = 0, !.providerInitializing = FALSE,
                                           !.providerInitPromise = 0])
         \* the catch of "Change Wallet" (ConnectWalletButton.tsx lines 1167-1170)
         s1 == IF \E k \in Awaiting(i) : calls[k].owner = ChangeOwner
               THEN [s0 EXCEPT !.isLoading = FALSE] ELSE s0
     IN /\ Commit(IF owners # {} THEN flowRejected(s1) ELSE s1)
        /\ conn' = [c \in ConnIds |-> IF c \in owners THEN IdleConn ELSE conn[c]]
        /\ last' = Failed(IF owners # {} THEN "connectRejected" ELSE "initRejected", 0)
  /\ calls' = [k \in CallIds |-> IF k \in Awaiting(i) THEN Rejected(calls[k]) ELSE calls[k]]
  /\ UNCHANGED envVars
  /\ Sessions([sessions EXCEPT ![i].state = "failed"])

\* the flows waiting for connect() on instance i (line 1263)
Connecting(i) == {k \in CallIds : calls[k].pc = "connect" /\ calls[k].sess = i}

\* the wallet approved the pairing: connect() resolves, the instance reports the
\* accounts and the chain, the QR modal closes; a waiting flow sends
\* eth_requestAccounts (line 1276)
SessionApproved(i, l, n) ==
  /\ sessions[i].connect = "pending"
  /\ calls' = [k \in CallIds |->
                 IF k \in Connecting(i) THEN [calls[k] EXCEPT !.pc = "request"] ELSE calls[k]]
  /\ Commit(closeModal(State))
  /\ last' = Step("sessionApproved")
  /\ UNCHANGED <<envVars, conn>>
  /\ Sessions([sessions EXCEPT ![i].connect = "none", ![i].connected = TRUE,
                               ![i].accounts = l, ![i].chainId = n])

\* connect() rejected (the user closed the QR modal or declined): a waiting flow
\* rethrows it with "error.code || 4001" (lines 1288-1298)
ConnectRejected(i, code) ==
  /\ sessions[i].connect = "pending"
  /\ LET owners == {calls[k].owner : k \in Connecting(i)} \cap ConnIds
         s1 == closeModal(State)
     IN /\ Commit(IF owners # {} THEN flowRejected(s1) ELSE s1)
        /\ conn' = [c \in ConnIds |-> IF c \in owners THEN IdleConn ELSE conn[c]]
        /\ last' = Failed(IF owners # {} THEN "connectRejected" ELSE "flowRejected",
                          IF code # 0 THEN code ELSE 4001)
  /\ calls' = [k \in CallIds |-> IF k \in Connecting(i) THEN Rejected(calls[k]) ELSE calls[k]]
  /\ UNCHANGED envVars
  /\ Sessions([sessions EXCEPT ![i].connect = "none"])

\* eth_requestAccounts of the flow settled (lines 1273-1287): l is the list it
\* returned, empty when it threw, and n the chainId the held instance reports.
\* With a non-empty list the flow returns it.  Otherwise it awaits
\* connectionPromise, which is rejected already: its executor reads
\* connectionPromise at line 1251 before the constant is initialised, and the
\* throw rejects the promise; the catch at line 1288 turns that into code 4001
FlowRequestReply(k, l, n) ==
  /\ calls[k].kind = "flow" /\ calls[k].pc = "request"
  /\ l = <<>> \/ <<l, n>> \in ReadSession(calls[k].sess)
  /\ <<l, n>> \in {<<(<<>>), 0>>} \cup (NonEmptyLists \X WcChainIds)
  /\ LET o == calls[k].owner
     IN IF Len(l) > 0
        THEN /\ Commit(OwnerResolved(State, o, l, IF provider = 0 THEN 0 ELSE n))
             /\ last' = Did(IF o \in ConnIds THEN "connected" ELSE "flowResolved",
                            "walletconnect", l)
             /\ conn' = IF o \in ConnIds THEN [conn EXCEPT ![o] = IdleConn] ELSE conn
        ELSE /\ Commit(OwnerRejected(State, o))
             /\ last' = Failed(IF o \in ConnIds THEN "connectRejected" ELSE "flowRejected",
                               4001)
             /\ conn' = IF o \in ConnIds THEN [conn EXCEPT ![o] = IdleConn] ELSE conn
  /\ calls' = [calls EXCEPT ![k] = IF Len(l) > 0 THEN IdleCall ELSE Rejected(calls[k])]
  /\ UNCHANGED envVars
  /\ Sessions(sessions)

\* the 30 s timer of the flow fires (lines 1224-1243).  Its resolve and reject
\* act on connectionPromise, which is settled since its executor threw at line
\* 1251, so they have no effect; the flow goes on awaiting the SDK call at
\* line 1263 or 1276, which is not raced against the timer
FlowTimeout(k) ==
  /\ calls[k].kind = "flow" /\ calls[k].timer = "set"
  /\ calls' = [calls EXCEPT ![k].timer = "fired"]
  /\ last' = Step("flowTimeout")
  /\ UNCHANGED <<envVars, localStorage, uiVars, smVars, effVars, conn, modalOpen, loadingTimer>>
  /\ Sessions(sessions)

\* ------------------------------------------------------------------ notifications of a session
\* the accountsChanged handler of the controller (lines 620-628)
wcAccountsChanged(s, l) ==
  IF Len(l) > 0
  THEN [s EXCEPT !.accounts = l, !.account = l[1],
                 !.localStorage.walletConnectionActive = TRUE]
  ELSE resetState(s)

\* an established session notifies its handlers of new accounts.  A handler of
\* an earlier mount still runs, but its setState calls reach no mounted component.
WcAccountsChanged(i, l) ==
  /\ variant = "wc"
  /\ sessions[i].connected /\ sessions[i].handlers > 0
  /\ IF sessions[i].mounted
     THEN /\ l # sessions[i].accounts
          /\ Commit(wcAccountsChanged(State, l))
     ELSE /\ Len(l) > 0
          /\ Commit([State EXCEPT !.localStorage.walletConnectionActive = TRUE])
  /\ last' = Step("accountsChanged")
  /\ UNCHANGED <<envVars, calls, conn>>
  /\ Sessions([sessions EXCEPT ![i].accounts = l])

\* an established session notifies the handler of the mounted component of a
\* new chain (handler at lines 630-634)
WcChainChanged(i, n) ==
  /\ variant = "wc"
  /\ sessions[i].connected /\ sessions[i].mounted /\ n # sessions[i].chainId
  /\ Commit([State EXCEPT !.currentChain = HexChainId(n)])
  /\ last' = Step("chainChanged")
  /\ UNCHANGED <<envVars, calls, conn>>
  /\ Sessions([sessions EXCEPT ![i].chainId = n])

\* the wallet ends an established session (handler at lines 636-638)
WcSessionDisconnect(i) ==
  /\ variant = "wc"
  /\ sessions[i].connected
  /\ IF sessions[i].mounted
     THEN Commit(resetState(State))
     ELSE UNCHANGED <<localStorage, uiVars, smVars, effVars, modalOpen, loadingTimer>>
  /\ last' = IF sessions[i].handlers > 0 THEN Step("sessionDisconnect") ELSE last
  /\ UNCHANGED <<envVars, calls, conn>>
  /\ Sessions([sessions EXCEPT ![i].connected = FALSE, ![i].accounts = <<>>])

\* the 500 ms timer of the modal subscription fires (lines 671-673)
LoadingTimerFires ==
  /\ loadingTimer
  /\ Commit([State EXCEPT !.isLoading = FALSE, !.loadingTimer = FALSE])
  /\ last' = Step("modalClosed")
  /\ UNCHANGED <<envVars, sessions, calls, conn>>

\* ------------------------------------------------------------------ switching chain and account
\* getChainName with the ids compared as they are written
getChainNameExact(cur) ==
  IF cur = <<>> THEN "Unknown Chain"
  ELSE LET found == {i \in 1..Len(chains) : chains[i] = cur}
       IN IF found = {} THEN "Unknown Chain"
          ELSE chainNames[CHOOSE i \in found : \A j \in found : i <= j]

\* getChainName (lines 950-954) for currentChain = cur, the empty string and
\* null alike written <<>>: the name of the first chain whose id equals cur
\* after both are put in lower case
getChainName(cur) ==
  IF cur = <<>> THEN "Unknown Chain"
  ELSE LET found == {i \in 1..Len(chains) : toLowerCase(chains[i]) = toLowerCase(cur)}
       IN IF found = {} THEN "Unknown Chain"
          ELSE chainNames[CHOOSE i \in found : \A j \in found : i <= j]

\* a lookup of the chain that ignores the case of the id
chainListedUpToCase(cs) == \E i \in 1..Len(chains) : toLowerCase(chains[i]) = toLowerCase(cs)

\* whether chains.find(c => c.id === chainId) finds a chain (lines 297 and 847)
chainListed(cs) == \E i \in 1..Len(chains) : chains[i] = cs

\* switchChain(chainId) up to its first await (lines 799-824 and 837-843): the
\* chain shown is replaced at once; without a session (line 808) or without an
\* injected object (line 837) the call ends in its finally (line 879)
WcSwitchChain(cs) ==
  /\ variant = "wc"
  /\ LET s1 == [State EXCEPT !.currentChain = Spell(cs)]
         viaSession == walletProvider = "walletconnect"
         step == [Step("switchChain") EXCEPT !.pid = walletProvider,
                                             !.before = currentChain, !.chain = cs]
     IN IF (viaSession /\ provider = 0) \/ (~viaSession /\ ~ethereum.present)
        THEN /\ Commit([s1 EXCEPT !.menuOpen = FALSE])
             /\ last' = [step EXCEPT !.op = "switchChainEnded"]
             /\ UNCHANGED calls
        ELSE /\ Commit(s1)
             /\ last' = step
             /\ \E k \in FreeCall :
                  calls' = [calls EXCEPT ![k] =
                     [kind |-> "switchChain",
                      pc |-> IF chainListed(cs) THEN "switch" ELSE "switchUnlisted",
                      sess |-> IF viaSession THEN provider ELSE 0,
                      owner |-> UserOwner, timer |-> "off", chain |-> cs, before |-> currentChain]]
  /\ UNCHANGED <<envVars, conn>>
  /\ Sessions(sessions)

\* switchChain(chainId) of the extension-only controller up to its await (lines
\* 287-294): without an injected object it returns at once (line 288), the menu
\* as it was; its catch and finally (lines 295-324) are those of lines 844-880
ExtSwitchChain(cs) ==
  /\ variant = "ext"
  /\ LET step == [Step("switchChain") EXCEPT !.pid = currentWallet,
                                             !.before = currentChain, !.chain = cs]
     IN IF ~ethereum.present
        THEN /\ last' = [step EXCEPT !.op = "switchChainEnded"]
             /\ UNCHANGED calls
        ELSE /\ last' = step
             /\ \E k \in FreeCall :
                  calls' = [calls EXCEPT ![k] =
                     [kind |-> "switchChain",
                      pc |-> IF chainListed(cs) THEN "switch" ELSE "switchUnlisted",
                      sess |-> 0, owner |-> UserOwner, timer |-> "off", chain |-> cs, before |-> currentChain]]
  /\ Commit(State)
  /\ UNCHANGED <<envVars, conn>>
  /\ Sessions(sessions)

\* the button that shows the account, or "Connect Wallet", is clicked (lines
\* 418, 460 and 1061)
ToggleMenu ==
  /\ Commit([State EXCEPT !.menuOpen = ~menuOpen])
  /\ last' = Step("toggleMenu")
  /\ UNCHANGED <<envVars, calls, conn>>
  /\ Sessions(sessions)

\* the wallet_switchEthereumChain request of switchChain settles.  Sent to the
\* session (lines 820-831): success and failure both end the call.  Sent to the
\* injected object (lines 839-877): error 4902 for a chain of the registry is
\* followed by wallet_addEthereumChain, everything else ends the call.
WcSwitchChainReply(k, outcome) ==
  /\ calls[k].kind = "switchChain" /\ calls[k].pc \in {"switch", "switchUnlisted"}
  /\ (outcome = "ok" /\ calls[k].sess # 0) => sessions[calls[k].sess].connected
  /\ IF calls[k].sess = 0 /\ outcome = "4902" /\ calls[k].pc = "switch"
     THEN /\ calls' = [calls EXCEPT ![k].pc = "add"]
          /\ last' = Step("addChain")
          /\ UNCHANGED <<localStorage, uiVars, smVars, effVars, modalOpen, loadingTimer>>
     ELSE /\ calls' = [calls EXCEPT ![k] = IdleCall]
          /\ last' = Step(IF outcome = "ok" THEN "switchChainResolved" ELSE "switchChainFailed")
          /\ Commit([State EXCEPT !.menuOpen = FALSE])
  /\ UNCHANGED <<envVars, conn>>
  /\ Sessions(sessions)

\* the wallet_addEthereumChain request settles (lines 851-871, 879)
WcAddChainReply(k, ok) ==
  /\ calls[k].kind = "switchChain" /\ calls[k].pc = "add"
  /\ calls' = [calls EXCEPT ![k] = IdleCall]
  /\ last' = Step(IF ok THEN "chainAdded" ELSE "addChainFailed")
  /\ Commit([State EXCEPT !.menuOpen = FALSE])
  /\ UNCHANGED <<envVars, conn>>
  /\ Sessions(sessions)

\* switchAccount of the walletconnect branch without the account shown
switchAccountKeepsAccount(s, a) == [s EXCEPT !.menuOpen = FALSE]

\* switchAccount(newAccount), walletconnect branch: what it sets (lines 888, 912)
wcSwitchAccount(s, a) == [s EXCEPT !.account = a, !.menuOpen = FALSE]

\* switchAccount(newAccount) (lines 883-944).  With walletconnect as provider
\* the account shown is replaced and, when the session manager holds a session,
\* a wallet_switchEthereumAccount request is sent to it (lines 891-908).
\* Otherwise wallet_requestPermissions is sent to the injected object (line 920).
WcSwitchAccount(a) ==
  /\ variant = "wc"
  /\ a # account
  /\ LET viaSession == walletProvider = "walletconnect"
         sends == IF viaSession THEN provider # 0 ELSE ethereum.present
     IN /\ Commit(IF viaSession THEN wcSwitchAccount(State, a)
                                ELSE [State EXCEPT !.menuOpen = FALSE])
        /\ last' = [Did("switchAccount", walletProvider, accounts) EXCEPT !.before = account]
        /\ IF sends
           THEN \E k \in FreeCall :
                  calls' = [calls EXCEPT ![k] =
                     [kind |-> "switchAccount",
                      pc |-> IF viaSession THEN "request" ELSE "permissions",
                      sess |-> IF viaSession THEN provider ELSE 0,
                      owner |-> UserOwner, timer |-> "off", chain |-> <<>>, before |-> Null]]
           ELSE UNCHANGED calls
  /\ UNCHANGED <<envVars, conn>>
  /\ Sessions(sessions)

\* the wallet_switchEthereumAccount request settles: its result is dropped, its
\* failure logged (lines 901-906)
WcSwitchAccountReply(k, ok) ==
  /\ calls[k].kind = "switchAccount" /\ calls[k].pc = "request"
  /\ calls' = [calls EXCEPT ![k] = IdleCall]
  /\ last' = Step(IF ok THEN "switchAccountResolved" ELSE "switchAccountFailed")
  /\ UNCHANGED <<envVars, localStorage, uiVars, smVars, effVars, conn, modalOpen, loadingTimer>>
  /\ Sessions(sessions)

\* wallet_requestPermissions of switchAccount settles (lines 920-939)
WcSwitchPermissionReply(k, granted) ==
  /\ calls[k].kind = "switchAccount" /\ calls[k].pc = "permissions"
  /\ calls' = IF granted THEN [calls EXCEPT ![k].pc = "accounts"]
                         ELSE [calls EXCEPT ![k] = IdleCall]
  /\ last' = Step(IF granted THEN "permissionGranted" ELSE "permissionDenied")
  /\ UNCHANGED <<envVars, localStorage, uiVars, smVars, effVars, conn, modalOpen, loadingTimer>>
  /\ Sessions(sessions)

\* a switchAccount that drops the list eth_accounts returned
switchAccountDropsList(s, l) == s

\* what switchAccount does with the list eth_accounts returned (lines 926-929)
switchAccountRefresh(s, l) ==
  [s EXCEPT !.accounts = l, !.account = IF Len(l) > 0 THEN l[1] ELSE @]

\* eth_accounts of switchAccount settles (lines 925-934)
WcSwitchAccountsReply(k, ok, l) ==
  /\ calls[k].kind = "switchAccount" /\ calls[k].pc = "accounts"
  /\ ~ok => l = <<>>
  /\ calls' = [calls EXCEPT ![k] = IdleCall]
  /\ last' = IF ok THEN Did("accountsAfterPermission", walletProvider, l)
                   ELSE Step("accountsAfterPermissionFailed")
  /\ Commit(IF ~ok THEN State ELSE switchAccountRefresh(State, l))
  /\ UNCHANGED <<envVars, conn>>
  /\ Sessions(sessions)

\* ------------------------------------------------------------------ mount and page load
\* first render of the WalletConnect-enabled component (mount effect, lines
\* 605-647) in a page whose module state is that of s; l and n are what the
\* held instance reports as its accounts and chainId
wcMount(s, l, n) ==
  LET listening == [Unmounted(s.localStorage) EXCEPT
                      !.provider = s.provider,
                      !.providerInitializing = s.providerInitializing,
                      !.providerInitPromise = s.providerInitPromise,
                      !.walletConnectModal = s.walletConnectModal,
                      !.modalOpen = s.modalOpen]
  IN IF s.provider # 0 /\ Len(l) > 0
     THEN [listening EXCEPT
             !.accounts = l,
             !.account = l[1],
             !.currentChain = IF n # 0 THEN HexChainId(n) ELSE Null,
             !.walletProvider = "walletconnect",
             !.localStorage.walletConnectionActive = TRUE]
     ELSE listening

\* the handlers of the instances after that mount: the component registers its
\* handlers on the instance p the session manager holds (lines 620-638); the
\* cleanup of the previous mount removed none (lines 641-645 pass new functions)
wcMountHandlers(tbl, p, l, n) ==
  [i \in SessionIds |->
     IF i = p
     THEN [tbl[i] EXCEPT !.handlers = Min(@ + 1, MaxListeners), !.mounted = TRUE,
                         !.accounts = l, !.chainId = n]
     ELSE [tbl[i] EXCEPT !.mounted = FALSE]]

Quiet == (\A c \in ConnIds : conn[c].pc = "idle") /\ (\A k \in CallIds : calls[k].pc = "idle")

\* the component is unmounted and mounted again without a page load, while no
\* handler of it is waiting for a reply
Remount(l, n) ==
  /\ variant = "wc"
  /\ Quiet
  /\ <<l, n>> \in ReadSession(provider)
  /\ Commit(wcMount(State, l, n))
  /\ last' = Step("mount")
  /\ UNCHANGED <<envVars, calls, conn>>
  /\ Sessions(wcMountHandlers(sessions, provider, l, n))

InitFrom(s) ==
  /\ account = s.account
  /\ accounts = s.accounts
  /\ currentChain = s.currentChain
  /\ menuOpen = s.menuOpen
  /\ menuTab = s.menuTab
  /\ currentWallet = s.currentWallet
  /\ connecting = s.connecting
  /\ walletProvider = s.walletProvider
  /\ isLoading = s.isLoading
  /\ isDisconnecting = s.isDisconnecting
  /\ localStorage = s.localStorage
  /\ provider = s.provider
  /\ providerInitializing = s.providerInitializing
  /\ providerInitPromise = s.providerInitPromise
  /\ walletConnectModal = s.walletConnectModal
  /\ ethListeners = s.ethListeners
  /\ interval = s.interval
  /\ checks = s.checks
  /\ modalOpen = s.modalOpen
  /\ loadingTimer = s.loadingTimer

\* state of the page right after it loaded with storage ls and mounted its component
Loaded(v, eth, ls) == IF v = "ext" THEN extMount(ls, eth) ELSE Unmounted(ls)

\* the page is loaded again: module state and handlers are gone, localStorage stays
PageReload ==
  /\ Commit(Loaded(variant, ethereum, localStorage))
  /\ manuallyDisconnected' = (variant = "wc" /\ localStorage.walletManuallyDisconnected)
  /\ sessions' = [i \in SessionIds |-> NoSession]
  /\ calls' = [k \in CallIds |-> IdleCall]
  /\ conn' = [c \in ConnIds |-> IdleConn]
  /\ last' = Step("load")
  /\ UNCHANGED <<variant, ethereum>>

\* ------------------------------------------------------------------ callers of the session manager
\* a direct call of initEthereumProvider (lines 991-1015)
ClientInitEthereumProvider ==
  /\ variant = "none"
  /\ LET free == FreeSession(IF manuallyDisconnected THEN resetProvider(State) ELSE State)
         i == IF free = {} THEN 0 ELSE CHOOSE x \in free : TRUE
         r == initEthereumProvider(State, i)
     IN /\ r.how = "created" => i # 0
        /\ Commit(r.st)
        /\ last' = Step(r.how)
        /\ IF r.how = "existing"
           THEN UNCHANGED calls
           ELSE \E k \in FreeCall :
                  calls' = [calls EXCEPT ![k] =
                     [kind |-> "init", pc |-> "init", sess |-> r.sess, owner |-> Client, timer |-> "off", chain |-> <<>>, before |-> Null]]
        /\ UNCHANGED <<envVars, conn>>
        /\ Sessions(IF r.how = "created"
                    THEN [sessions EXCEPT ![i] = NewSession] ELSE sessions)

\* a call of initiateWalletConnectFlow (kind "flow", lines 1130-1138) or of
\* openWalletConnectModal (kind "open", lines 1341-1348): resetProvider, then
\* initEthereumProvider
ClientResetAndInit(kind) ==
  /\ variant = "none"
  /\ \E i \in FreeSession(resetProvider(State)), k \in FreeCall :
       LET r == initEthereumProvider(resetProvider(State), i)
       IN /\ r.how = "created"
          /\ Commit(r.st)
          /\ calls' = [calls EXCEPT ![k] =
                         [kind |-> kind, pc |-> "init", sess |-> i, owner |-> Client, timer |-> "off", chain |-> <<>>, before |-> Null]]
          /\ last' = Step(kind)
          /\ UNCHANGED <<envVars, conn>>
          /\ Sessions([sessions EXCEPT ![i] = NewSession])

\* a call of resetProvider
ClientResetProvider ==
  /\ variant = "none"
  /\ Commit(resetProvider(State))
  /\ last' = Step("resetProvider")
  /\ UNCHANGED <<envVars, calls, conn>>
  /\ Sessions(sessions)

\* a call of disconnectWalletConnect (lines 1307-1323)
ClientDisconnect ==
  /\ variant = "none"
  /\ Commit(disconnectWalletConnect(State))
  /\ IF provider # 0
     THEN \E k \in FreeCall :
            /\ calls' = [calls EXCEPT ![k] =
                 [kind |-> "disconnect", pc |-> "remote", sess |-> provider, owner |-> Client, timer |-> "off", chain |-> <<>>, before |-> Null]]
            /\ last' = Step("disconnectStart")
     ELSE /\ UNCHANGED calls
          /\ last' = Step("disconnectWalletConnect")
  /\ UNCHANGED <<envVars, conn>>
  /\ Sessions(sessions)

\* switchEthereumChain(chainId) up to its request: "notInitialized" without a
\* session, "unsupported" when the list in its body lacks the target, else "sent"
switchEthereumChain(s, cs) ==
  IF s.provider = 0 THEN "notInitialized"
  ELSE IF targetChainId(cs) \notin {1, 10, 42161} THEN "unsupported"
  ELSE "sent"

\* a call of switchEthereumChain
ClientSwitchEthereumChain(cs) ==
  /\ variant = "none"
  /\ LET how == switchEthereumChain(State, cs)
     IN /\ last' = [Step("switch_" \o how) EXCEPT !.chain = cs]
        /\ IF how = "sent"
           THEN \E k \in FreeCall :
                  calls' = [calls EXCEPT ![k] =
                     [kind |-> "switch", pc |-> "request", sess |-> provider,
                      owner |-> Client, timer |-> "off", chain |-> <<>>, before |-> Null]]
           ELSE UNCHANGED calls
  /\ UNCHANGED <<envVars, localStorage, uiVars, smVars, effVars, conn, modalOpen, loadingTimer>>
  /\ Sessions(sessions)

\* the session answers the wallet_switchEthereumChain request of a
\* switchEthereumChain call; a failure is thrown on to the caller
SwitchRequestReply(k, ok) ==
  /\ calls[k].kind = "switch" /\ calls[k].pc = "request"
  /\ ok => sessions[calls[k].sess].connected
  /\ calls' = [calls EXCEPT ![k] = IdleCall]
  /\ last' = Step(IF ok THEN "switch_resolved" ELSE "switch_rejected")
  /\ UNCHANGED <<envVars, localStorage, uiVars, smVars, effVars, conn, modalOpen, loadingTimer>>
  /\ Sessions(sessions)

\* ------------------------------------------------------------------ the walletconnect descriptor
\* the descriptor calls a function that begins with resetProvider() and
\* initEthereumProvider(): openWalletConnectModal (Layout.tsx 1341-1348) or
\* initiateWalletConnectFlow (1130-1138); the call takes the place k
DescriptorCalls(k, kind, owner) ==
  /\ variant = "none"
  /\ \E i \in FreeSession(resetProvider(State)) :
       LET r == initEthereumProvider(resetProvider(State), i)
       IN /\ r.how = "created"
          /\ Commit(r.st)
          /\ calls' = [calls EXCEPT ![k] =
                         [kind |-> kind, pc |-> "init", sess |-> i, owner |-> owner,
                          timer |-> "off", chain |-> <<>>, before |-> Null]]
          /\ UNCHANGED <<envVars, conn>>
          /\ Sessions([sessions EXCEPT ![i] = NewSession])

\* requestConnection of the walletconnect descriptor is called (part_000 lines
\* 76-79): it awaits openWalletConnectModal
RequestConnection ==
  /\ \E k \in FreeCall : DescriptorCalls(k, "open", Descriptor)
  /\ last' = Step("requestConnection")

\* its 500 ms wait is over: it awaits initiateWalletConnectFlow (line 85)
DescriptorDelayElapsed(k) ==
  /\ calls[k].kind = "descriptor" /\ calls[k].pc = "delay"
  /\ DescriptorCalls(k, "flow", Descriptor)
  /\ last' = Step("descriptorFlow")

\* its catch block awaits initiateWalletConnectFlow once more (lines 86-90);
\* when that fails too, the descriptor returns null (lines 91-94)
DescriptorCatch(k) ==
  /\ calls[k].kind = "descriptor" /\ calls[k].pc = "catch"
  /\ DescriptorCalls(k, "flow", DescriptorFallback)
  /\ last' = Step("descriptorFallback")

\* no descriptor is about to run its catch block, which it does before the
\* page handles anything else
NoCatch == \A k \in CallIds : calls[k].pc # "catch"

\* ------------------------------------------------------------------ specifications
\* the provider ids connectWallet is called with; "coinbase" stands for every
\* extension provider the injected object does not announce
ExtProviders == {"metamask", "coinbase"}
WcProviders == {"metamask", "coinbase", "walletconnect"}

NoProcesses ==
  /\ sessions = [i \in SessionIds |-> NoSession]
  /\ calls = [k \in CallIds |-> IdleCall]
  /\ conn = [c \in ConnIds |-> IdleConn]
  /\ last = Step("load")

\* replies of the WalletConnect SDK
SdkNext ==
  \/ \E i \in SessionIds : SdkInitResolved(i)
  \/ \E i \in SessionIds : SdkInitRejected(i)
  \/ \E i \in SessionIds, l \in NonEmptyLists, n \in WcChainIds : SessionApproved(i, l, n)
  \/ \E i \in SessionIds, code \in ErrorCodes : ConnectRejected(i, code)
  \/ \E k \in CallIds, l \in AccountLists, n \in WcChainIds \cup {0} : FlowRequestReply(k, l, n)
  \/ \E k \in CallIds, ok \in BOOLEAN : DisconnectReply(k, ok)

\* a page with the extension-only controller, first visit
InitExt ==
  /\ variant = "ext"
  /\ ethereum \in EthereumObjects
  /\ manuallyDisconnected = FALSE
  /\ InitFrom(Loaded(variant, ethereum, NoStorage))
  /\ NoProcesses

NextExt ==
  \/ \E p \in ExtProviders : Quiet /\ ExtConnectWallet(p)
  \/ \E c \in ConnIds : ExtConnectDelay(c)
  \/ \E c \in ConnIds, granted \in BOOLEAN : ExtPermissionReply(c, granted)
  \/ \E c \in ConnIds, l \in AccountLists : ExtAccountsReply(c, l)
  \/ \E c \in ConnIds, code \in ErrorCodes : ExtAccountsRejected(c, code)
  \/ \E c \in ConnIds, chain \in EthChainIds : ExtChainReply(c, chain)
  \/ \E c \in ConnIds : ExtChainRejected(c)
  \/ ExtHandleDisconnect
  \/ \E l \in AccountLists : ExtAccountsChanged(l)
  \/ \E chain \in EthChainIds : ExtChainChanged(chain)
  \/ \E k \in checks, l \in AccountLists : ExtCheckAccounts(k, l)
  \/ \E k \in checks, chain \in EthChainIds : ExtCheckChain(k, chain)
  \/ \E k \in checks : ExtCheckRejected(k)
  \/ ExtCheckIfStillConnected
  \/ PageReload

SpecExt == InitExt /\ [][NextExt]_vars

\* the extension-only controller with a user who selects a wallet again while
\* an earlier connectWallet has not returned: the wallet list stays rendered and
\* its buttons enabled until an account is set (lines 436-449)
InitRace ==
  /\ variant = "ext"
  /\ ethereum = MetaMaskObject
  /\ manuallyDisconnected = FALSE
  /\ InitFrom(Loaded(variant, ethereum, NoStorage))
  /\ NoProcesses

NextRace ==
  \/ \E p \in ExtProviders : ExtConnectWallet(p)
  \/ \E c \in ConnIds : ExtConnectDelay(c)
  \/ \E c \in ConnIds, granted \in BOOLEAN : ExtPermissionReply(c, granted)
  \/ \E c \in ConnIds, l \in AccountLists : ExtAccountsReply(c, l)
  \/ \E c \in ConnIds, code \in ErrorCodes : ExtAccountsRejected(c, code)
  \/ \E c \in ConnIds, chain \in EthChainIds : ExtChainReply(c, chain)
  \/ \E c \in ConnIds : ExtChainRejected(c)
  \/ ExtHandleDisconnect

SpecRace == InitRace /\ [][NextRace]_vars

\* a page with the WalletConnect-enabled controller, first visit, in a browser
\* with the MetaMask extension
InitWc ==
  /\ variant = "wc"
  /\ ethereum = MetaMaskObject
  /\ manuallyDisconnected = FALSE
  /\ InitFrom(Loaded(variant, ethereum, NoStorage))
  /\ NoProcesses

NextWc ==
  \/ \E p \in WcProviders : Quiet /\ WcConnectWallet(p)
  \/ \E c \in ConnIds : WcConnectDelay(c)
  \/ \E c \in ConnIds, granted \in BOOLEAN : WcPermissionReply(c, granted)
  \/ \E c \in ConnIds, l \in AccountLists : WcAccountsReply(c, l)
  \/ \E c \in ConnIds, code \in ErrorCodes : WcAccountsRejected(c, code)
  \/ WcHandleDisconnect
  \/ \E i \in SessionIds, l \in AccountLists : WcAccountsChanged(i, l)
  \/ \E i \in SessionIds, n \in WcChainIds : WcChainChanged(i, n)
  \/ \E i \in SessionIds : WcSessionDisconnect(i)
  \/ LoadingTimerFires
  \/ \E k \in CallIds : FlowTimeout(k)
  \/ \E l \in AccountLists, n \in WcChainIds \cup {0} : Remount(l, n)
  \/ SdkNext

SpecWc == InitWc /\ [][NextWc]_vars

\* the WalletConnect-enabled controller with a user who connects and then
\* switches chain and account
InitSwitch == InitWc

NextSwitch ==
  \/ \E p \in WcProviders : Quiet /\ WcConnectWallet(p)
  \/ \E c \in ConnIds : WcConnectDelay(c)
  \/ \E c \in ConnIds, granted \in BOOLEAN : WcPermissionReply(c, granted)
  \/ \E c \in ConnIds, l \in AccountLists : WcAccountsReply(c, l)
  \/ \E c \in ConnIds, code \in ErrorCodes : WcAccountsRejected(c, code)
  \/ LoadingTimerFires
  \/ \E cs \in SwitchChainInputs : Quiet /\ WcSwitchChain(cs)
  \/ \E k \in CallIds, outcome \in {"ok", "4902", "error"} : WcSwitchChainReply(k, outcome)
  \/ \E k \in CallIds, ok \in BOOLEAN : WcAddChainReply(k, ok)
  \/ \E i \in 1..Len(accounts) : Quiet /\ WcSwitchAccount(accounts[i])
  \/ \E k \in CallIds, ok \in BOOLEAN : WcSwitchAccountReply(k, ok)
  \/ \E k \in CallIds, granted \in BOOLEAN : WcSwitchPermissionReply(k, granted)
  \/ \E k \in CallIds, ok \in BOOLEAN, l \in AccountLists : WcSwitchAccountsReply(k, ok, l)
  \/ SdkNext

SpecSwitch == InitSwitch /\ [][NextSwitch]_vars

\* either controller with a wallet extension: connecting, the menu, switchChain
InitChain ==
  /\ variant \in {"ext", "wc"}
  /\ ethereum = MetaMaskObject
  /\ manuallyDisconnected = FALSE
  /\ InitFrom(Loaded(variant, ethereum, NoStorage))
  /\ NoProcesses

NextChain ==
  \/ Quiet /\ ExtConnectWallet("metamask")
  \/ \E c \in ConnIds : ExtConnectDelay(c)
  \/ \E c \in ConnIds, granted \in BOOLEAN : ExtPermissionReply(c, granted)
  \/ \E c \in ConnIds, l \in AccountLists : ExtAccountsReply(c, l)
  \/ \E c \in ConnIds, code \in ErrorCodes : ExtAccountsRejected(c, code)
  \/ \E c \in ConnIds, chain \in EthChainIds : ExtChainReply(c, chain)
  \/ \E c \in ConnIds : ExtChainRejected(c)
  \/ Quiet /\ WcConnectWallet("metamask")
  \/ \E c \in ConnIds : WcConnectDelay(c)
  \/ \E c \in ConnIds, granted \in BOOLEAN : WcPermissionReply(c, granted)
  \/ \E c \in ConnIds, l \in AccountLists : WcAccountsReply(c, l)
  \/ \E c \in ConnIds, code \in ErrorCodes : WcAccountsRejected(c, code)
  \/ Quiet /\ ToggleMenu
  \/ \E cs \in SwitchChainInputs : Quiet /\ ExtSwitchChain(cs)
  \/ \E cs \in SwitchChainInputs : Quiet /\ WcSwitchChain(cs)
  \/ \E k \in CallIds, outcome \in {"ok", "4902", "error"} : WcSwitchChainReply(k, outcome)
  \/ \E k \in CallIds, ok \in BOOLEAN : WcAddChainReply(k, ok)

SpecChain == InitChain /\ [][NextChain]_vars

\* the WalletConnect-enabled controller with a user who connects and changes
\* wallet.  Every step that a reply of a provider, of the SDK or a timer of a
\* handler enables is taken in the end; the modal's close notification, from
\* which LoadingTimerFires follows, is not relied upon.
InitLoading == InitWc

ConnSteps(c) ==
  \/ WcConnectDelay(c)
  \/ \E granted \in BOOLEAN : WcPermissionReply(c, granted)
  \/ \E l \in AccountLists : WcAccountsReply(c, l)
  \/ \E code \in ErrorCodes : WcAccountsRejected(c, code)

CallSteps(k) ==
  \/ WcChangeDelay(k)
  \/ \E l \in AccountLists, n \in WcChainIds \cup {0} : FlowRequestReply(k, l, n)
  \/ \E ok \in BOOLEAN : DisconnectReply(k, ok)

SessionSteps(i) ==
  \/ SdkInitResolved(i)
  \/ SdkInitRejected(i)
  \/ \E l \in NonEmptyLists, n \in WcChainIds : SessionApproved(i, l, n)
  \/ \E code \in ErrorCodes : ConnectRejected(i, code)

NextLoading ==
  \/ \E p \in WcProviders : Quiet /\ WcConnectWallet(p)
  \/ Quiet /\ WcChangeWallet
  \/ \E c \in ConnIds : ConnSteps(c)
  \/ \E k \in CallIds : CallSteps(k)
  \/ \E i \in SessionIds : SessionSteps(i)
  \/ \E k \in CallIds : FlowTimeout(k)
  \/ LoadingTimerFires

SpecLoading ==
  /\ InitLoading /\ [][NextLoading]_vars
  /\ \A c \in ConnIds : WF_vars(ConnSteps(c))
  /\ \A k \in CallIds : WF_vars(CallSteps(k))
  /\ \A i \in SessionIds : WF_vars(SessionSteps(i))

\* the session manager called through the walletconnect descriptor only
InitDesc ==
  /\ variant = "none"
  /\ ethereum = NoEthereum
  /\ manuallyDisconnected = FALSE
  /\ InitFrom(Unmounted(NoStorage))
  /\ NoProcesses

NextDesc ==
  \/ \E k \in CallIds : DescriptorCatch(k)
  \/ NoCatch /\ RequestConnection
  \/ \E k \in CallIds : NoCatch /\ DescriptorDelayElapsed(k)
  \/ \E i \in SessionIds : NoCatch /\ SdkInitResolved(i)
  \/ \E i \in SessionIds : NoCatch /\ SdkInitRejected(i)
  \/ \E i \in SessionIds, l \in NonEmptyLists, n \in WcChainIds :
       NoCatch /\ SessionApproved(i, l, n)
  \/ \E i \in SessionIds, code \in ErrorCodes : NoCatch /\ ConnectRejected(i, code)
  \/ \E k \in CallIds, l \in AccountLists, n \in WcChainIds \cup {0} :
       NoCatch /\ FlowRequestReply(k, l, n)
  \/ \E k \in CallIds : NoCatch /\ FlowTimeout(k)

SpecDesc == InitDesc /\ [][NextDesc]_vars

\* the session manager on its own, called by clients outside the controller
InitSM ==
  /\ variant = "none"
  /\ ethereum = NoEthereum
  /\ manuallyDisconnected \in BOOLEAN
  /\ InitFrom(Unmounted([NoStorage EXCEPT !.walletManuallyDisconnected = manuallyDisconnected]))
  /\ NoProcesses

NextSM ==
  \/ ClientInitEthereumProvider
  \/ \E kind \in {"flow", "open"} : ClientResetAndInit(kind)
  \/ ClientResetProvider
  \/ ClientDisconnect
  \/ \E k \in CallIds : FlowTimeout(k)
  \/ \E cs \in ChainIdInputs : ClientSwitchEthereumChain(cs)
  \/ \E k \in CallIds, ok \in BOOLEAN : SwitchRequestReply(k, ok)
  \/ SdkNext

SpecSM == InitSM /\ [][NextSM]_vars

\* ================================================================== properties
\* the provider id of the mounted controller: currentWallet in the extension-only
\* component (line 14), walletProvider in the WalletConnect-enabled one (line 574)
providerId == IF variant = "ext" THEN currentWallet ELSE walletProvider

active == localStorage.walletConnectionActive
manual == localStorage.walletManuallyDisconnected

\* the steps a provider or a timer of the page takes on its own
NotificationOps ==
  {"accountsChanged", "chainChanged", "checkConnection", "checkConnectionDone",
   "checkIfStillConnected"}

\* the steps of a connectWallet invocation that do not end in Connected
UnconnectedOps ==
  {"connectWallet", "forcedDisconnect", "permissionGranted", "notInstalled",
   "connectEmpty", "connectNull", "connectRejected"}

\* C1: once handleDisconnect of a connected controller has settled, for every
\* provider kind and whether
\* the remote disconnect resolved or threw, account is null, accounts is empty,
\* currentChain is null, the provider id is null, walletManuallyDisconnected is
\* 'true' and walletConnectionActive is absent.
C1_DisconnectEndState ==
  (last.op = "handleDisconnect" /\ last.pid # Null /\ last.before # Null) =>
    /\ account = Null /\ accounts = <<>> /\ currentChain = Null
    /\ providerId = Null
    /\ manual /\ ~active

\* C2: a mount that surfaces an account found walletConnectionActive 'true' and
\* walletManuallyDisconnected not 'true' at that moment.
C2_MountSurfacesOnlyIfActive ==
  [][(last'.op = "mount" /\ account = Null /\ account' # Null) => (active /\ ~manual)]_vars

\* C3: after handleDisconnect of a connected controller a provider notification or a periodic check leaves
\* account null and walletConnectionActive absent (first step after the
\* disconnect, no connectWallet in between).
C3_DisconnectSuppressesReconnect ==
  [][(last.op = "handleDisconnect" /\ last.before # Null /\ last'.op \in NotificationOps)
       => (account' = Null /\ ~active')]_vars

\* C4: account is non-null iff accounts is non-empty and the provider id is set,
\* and when account is null accounts is empty and the provider id is null; stated
\* here for the states in which no handler of the controller waits for a reply.
C4_AccountIffAccountsAndProvider ==
  Quiet =>
    /\ account # Null <=> (accounts # <<>> /\ providerId # Null)
    /\ account = Null => (accounts = <<>> /\ providerId = Null)

\* C5: a connectWallet whose provider returned the non-empty list L ends with
\* account = L[1], accounts = L and walletConnectionActive 'true'.
C5_ConnectedWithReturnedList ==
  (last.op \in {"connected", "connectChainFailed"}) =>
    /\ account = last.list[1] /\ accounts = last.list
    /\ active

\* C6: a successful connect, for every provider kind, leaves currentChain
\* non-null and the provider id equal to the selected provider.
C6_ConnectSetsChainAndProvider ==
  last.op = "connected" => (currentChain # Null /\ providerId = last.pid)

\* C7: a connectWallet whose connection request was rejected with code 4001 ends
\* with account null, accounts empty, provider id null and loading false, and no
\* step of an attempt that does not end in Connected sets walletConnectionActive.
C7_RejectedLeavesDisconnected ==
  [][/\ (last' # last /\ last'.op \in {"connectRejected", "connectNull"} /\ last'.code = 4001)
         => (account' = Null /\ accounts' = <<>> /\ providerId' = Null /\ ~isLoading')
     /\ (last' # last /\ last'.op \in UnconnectedOps) => (active' => active)]_vars

\* C8: at most one account request is outstanding at the injected provider.
C8_OneRequestInFlight ==
  Cardinality({c \in ConnIds : conn[c].pc = "req"}) <= 1

\* C9: connectWallet('coinbase') with isCoinbaseWallet false opens the Coinbase
\* install URL, sends no request to the injected object and leaves account as it
\* was when connectWallet was called.
C9_NotInstalledKeepsAccount ==
  (last.op = "notInstalled" /\ last.pid = "coinbase") =>
    /\ last.url = "https://www.coinbase.com/wallet/downloads"
    /\ \A c \in ConnIds : conn[c].pc = "idle"
    /\ account = last.before

\* C9 as it holds: connectWallet('coinbase') with isCoinbaseWallet false opens
\* the Coinbase install URL and sends no request to the injected object, and an
\* account that was null when connectWallet was called is null afterwards.
C9_NotInstalledFromDisconnected ==
  (last.op = "notInstalled" /\ last.pid = "coinbase") =>
    /\ last.url = "https://www.coinbase.com/wallet/downloads"
    /\ \A c \in ConnIds : conn[c].pc = "idle"
    /\ last.before = Null => account = Null

\* connectWallet('coinbase') of a disconnected controller has opened the install page
C9_Witness ==
  /\ last.op = "notInstalled" /\ last.pid = "coinbase"
  /\ last.before = Null /\ account = Null
  /\ ~isLoading

\* C10: at most one EthereumProvider.init is outstanding at any time.
C10_OneInitOutstanding ==
  Cardinality({i \in SessionIds : sessions[i].state = "initializing"}) <= 1

\* C11: a call of initEthereumProvider made while a session exists returns that
\* session and changes neither the module variables, nor the persisted flags,
\* nor the instances, whatever walletManuallyDisconnected was at load time.
C11_InitIdempotent ==
  [][(ClientInitEthereumProvider /\ provider # 0)
       => (last'.op = "existing" /\ UNCHANGED <<smVars, localStorage, sessions>>)]_vars

\* C12: a flow does not stay pending once its 30 s budget has elapsed.
C12_FlowBoundedByBudget ==
  \A k \in CallIds : calls[k].timer = "fired" => calls[k].pc = "idle"

\* C13: a flow whose eth_requestAccounts settled without accounts keeps waiting
\* for a connect or accountsChanged event: the step that ends the request ends
\* the flow only by resolving it.
C13_FlowWaitsForEvents ==
  [][\A k \in CallIds :
       (calls[k].kind = "flow" /\ calls[k].pc = "request" /\ calls'[k].pc = "idle")
         => last'.op \in {"connected", "flowResolved"}]_vars

\* C14: a disconnect event of the session a pending flow has connected makes
\* that flow fail with code 4001.
C14_DisconnectFailsFlow ==
  [][\A k \in CallIds :
       (/\ calls[k].kind = "flow" /\ calls[k].pc = "request"
        /\ sessions[calls[k].sess].connected /\ ~sessions'[calls[k].sess].connected)
         => (/\ calls'[k].pc = "idle"
             /\ last'.op \in {"connectRejected", "flowRejected"} /\ last'.code = 4001)]_vars

\* C15: once disconnectWalletConnect has settled, the session, the modal
\* reference and the in-flight init promise are all null.
C15_DisconnectCleansUp ==
  last.op = "disconnectWalletConnect" =>
    (provider = 0 /\ ~walletConnectModal /\ providerInitPromise = 0)

\* C16: when the module refers to no initialisation (providerInitPromise is
\* null, as resetProvider leaves it), an initEthereumProvider call constructs a
\* new session; it never returns one whose construction an earlier call began.
C16_FreshSessionAfterReset ==
  [][(ClientInitEthereumProvider /\ providerInitPromise = 0)
       => last'.op = "created"]_vars

\* C17: with a session present, switchEthereumChain fails as unsupported, and
\* sends no request, exactly when the numeric value of its argument is not the
\* numeric id of a chain of the registry; otherwise it sends the request.
C17_UnsupportedIffNotInRegistry ==
  last.op \in {"switch_unsupported", "switch_sent"} =>
    (last.op = "switch_unsupported" <=> targetChainId(last.chain) \notin getNumericChainIds)

\* C18: with walletconnect as the active provider, a switchChain to a chain
\* that is not in the registry sends no request and leaves currentChain as it
\* was before the call.
C18_UnlistedChainKeepsCurrent ==
  (/\ last.op \in {"switchChain", "switchChainEnded"}
   /\ last.pid = "walletconnect" /\ account # Null /\ provider # 0
   /\ targetChainId(last.chain) \notin getNumericChainIds)
    => (/\ currentChain = last.before
        /\ \A k \in CallIds : calls[k].kind # "switchChain")

C20_SwitchIsSequential ==
  \A c \in ConnIds :
    (conn[c].before # Null /\ conn[c].pc \in {"perm", "req", "flow"})
      => (/\ \A k \in CallIds : ~(calls[k].kind = "disconnect" /\ calls[k].owner = c)
          /\ \A i \in SessionIds :
               sessions[i].connected
                 => \E k \in CallIds : calls[k].owner = c /\ calls[k].pc # "idle"
                                        /\ calls[k].sess = i)

\* C21: at most one handler of the controller per event name is registered on a
\* provider: one accountsChanged/chainChanged pair on the injected object, one
\* accountsChanged handler on a session.
C21_NoHandlerAccumulation ==
  /\ ethListeners <= 1
  /\ \A i \in SessionIds : sessions[i].handlers <= 1

\* C22: while the controller is connected through walletconnect, the handlers
\* of the mounted component are registered on the established session the
\* session manager holds, so that its notifications reach the controller.
C22_SessionEventsHandled ==
  (/\ walletProvider = "walletconnect" /\ account # Null
   /\ provider # 0 /\ sessions[provider].connected)
    => (sessions[provider].handlers > 0 /\ sessions[provider].mounted)

\* the steps on which a connectWallet call of the WalletConnect-enabled
\* controller ends after its provider or the session manager failed
ConnectFailureOps == {"connectRejected", "connectNull", "connectEmpty"}

\* C23: when connectWallet has ended after a failure of the provider or of the
\* session manager, the controller is disconnected: no account, provider id
\* null, loading false.
C23_FailureEndsDisconnected ==
  (variant = "wc" /\ last.op \in ConnectFailureOps)
    => (account = Null /\ accounts = <<>> /\ walletProvider = Null /\ ~isLoading)

\* C24: a handleDisconnect that runs right after another one has settled
\* changes nothing of the controller state, the persisted flags and the
\* singletons of the session manager.
C24_DisconnectIdempotent ==
  [][(last.op = "handleDisconnect" /\ WcHandleDisconnect)
       => (/\ UNCHANGED <<uiVars, localStorage, smVars>>
           /\ last'.op = "handleDisconnect")]_vars

\* a second handleDisconnect has settled after one that ended a walletconnect
\* or an extension connection
C24_Witness ==
  variant = "wc" /\ last.op = "handleDisconnect" /\ last.nth = 2

\* the ids of the registry as a set
chainIdSet == {chains[i] : i \in 1..Len(chains)}

\* C25 as stated: for the chain id the controller was switched to, the lookup
\* of the display returns the name of the chain with exactly that id, and
\* not-found for every string that is not written exactly as an id of the
\* registry; the lookup of the add-chain payload finds exactly the ids.
C25_LookupExact ==
  last.op \in {"switchChain", "switchChainEnded"} =>
    /\ chainListed(last.chain) <=> last.chain \in chainIdSet
    /\ \A i \in 1..Len(chains) : chains[i] = last.chain
                                   => getChainName(last.chain) = chainNames[i]
    /\ last.chain \notin chainIdSet => getChainName(last.chain) = "Unknown Chain"

\* C25 amended: the add-chain lookup finds exactly the ids of the registry; the
\* display lookup compares without regard to letter case: it returns the name of
\* the chain with that id, reports not-found exactly for the strings whose lower
\* case form is no id, and what it finds has the numeric id the string denotes.
C25_LookupUpToCase ==
  last.op \in {"switchChain", "switchChainEnded"} =>
    /\ chainListed(last.chain) <=> last.chain \in chainIdSet
    /\ \A i \in 1..Len(chains) : chains[i] = last.chain
                                   => getChainName(last.chain) = chainNames[i]
    /\ getChainName(last.chain) = "Unknown Chain"
         <=> toLowerCase(last.chain) \notin chainIdSet
    /\ \A i \in 1..Len(chains) :
         getChainName(last.chain) = chainNames[i]
           => parseInt(chains[i], 16) = parseInt(last.chain, 16)

\* the controller was switched to "0xA" and displays it
C25_Witness ==
  /\ last.op = "switchChain" /\ last.chain = <<"0", "x", "A">>
  /\ currentChain = "0xA" /\ getChainName(last.chain) = "Optimism"

\* C26: requestConnection of an extension descriptor either resolves with the
\* account list of the injected object or rejects; when the user rejects the
\* permission request it rejects with code 4001.
C26_RejectionIsFailure ==
  [][\A c \in ConnIds :
       (conn[c].pc = "perm" /\ ExtPermissionReply(c, FALSE))
         => (last'.op = "connectRejected" /\ last'.code = 4001)]_vars

\* C27: while a requestConnection of the walletconnect descriptor runs its
\* connect flow, no connect() call is pending on a session other than the one
\* of that flow.
C27_OneFlowPerRequest ==
  \A k \in CallIds :
    (calls[k].kind = "flow" /\ calls[k].owner \in {Descriptor, DescriptorFallback})
      => \A i \in SessionIds \ {calls[k].sess} : sessions[i].connect # "pending"

\* the step that settles a failed initEthereumProvider (lines 1046-1053, 1060-1063)
InitFailed == last.op \in {"initRejected", "connectRejected"} /\ last.code = 0

\* the Session Manager would start a new EthereumProvider.init (lines 1002-1013)
ReadyToRetry == provider = 0 /\ providerInitPromise = 0 /\ ~providerInitializing

\* C28: when a failed initEthereumProvider has settled, provider is null,
\* providerInitPromise is null and providerInitializing is false, and the Session
\* Manager stays so until it is called again: the next initEthereumProvider call
\* starts a new EthereumProvider.init.
C28_FailureLeavesReady ==
  [][/\ InitFailed' => ReadyToRetry'
     /\ (InitFailed /\ ~ReadyToRetry')
          => (ClientInitEthereumProvider \/ \E kind \in {"flow", "open"} : ClientResetAndInit(kind))
     /\ (InitFailed /\ ClientInitEthereumProvider) => last'.op = "created"]_vars

\* C29: whenever initiateWalletConnectFlow rejects, the value it rejects with
\* carries a numeric code.
C29_FlowFailureNormalised ==
  [][\A k \in CallIds :
       (/\ calls[k].kind = "flow" /\ calls'[k].kind # "flow"
        /\ last'.op \in {"initRejected", "flowRejected", "connectRejected"})
         => last'.code # 0]_vars

\* C30: when the wallet_switchEthereumChain request sent to a wallet extension
\* settles, switchChain sends wallet_addEthereumChain exactly if the request
\* failed with code 4902 and the chain id is an id of the registry; otherwise
\* the call ends there, as it does when the add-chain request settles, with no
\* request outstanding, nothing thrown and the menu closed.
C30_AddChainExactlyOn4902 ==
  [][/\ \A k \in CallIds, outcome \in {"ok", "4902", "error"} :
          (calls[k].sess = 0 /\ WcSwitchChainReply(k, outcome))
            => /\ (calls'[k].pc = "add") <=> (outcome = "4902" /\ calls[k].chain \in chainIdSet)
               /\ calls'[k].pc # "add" => (calls'[k] = IdleCall /\ ~menuOpen')
     /\ \A k \in CallIds, ok \in BOOLEAN :
          WcAddChainReply(k, ok) => (calls'[k] = IdleCall /\ ~menuOpen')]_vars

\* a wallet_addEthereumChain request for a chain of the registry is outstanding
\* in the extension-only controller, the menu still open
C30_Witness ==
  /\ variant = "ext" /\ menuOpen
  /\ \E k \in CallIds : calls[k].pc = "add" /\ calls[k].chain \in chainIdSet

\* C31: switchAccount on a wallet extension sends eth_accounts exactly when
\* wallet_requestPermissions was granted, leaves account and accounts as they
\* were when either request is rejected, and when eth_accounts returns a list
\* sets accounts to it and account to its first element.
C31_SwitchAccountRefreshes ==
  [][/\ \A k \in CallIds, granted \in BOOLEAN :
          WcSwitchPermissionReply(k, granted)
            => /\ UNCHANGED <<account, accounts>>
               /\ (calls'[k].pc = "accounts") <=> granted
               /\ ~granted => calls'[k] = IdleCall
     /\ \A k \in CallIds, l \in AccountLists :
          /\ WcSwitchAccountsReply(k, FALSE, l) => UNCHANGED <<account, accounts>>
          /\ WcSwitchAccountsReply(k, TRUE, l)
               => (accounts' = l /\ (Len(l) > 0 => account' = l[1]))]_vars

\* eth_accounts of a switchAccount returned a list whose first element replaced
\* the account shown
C31_Witness ==
  /\ last.op = "accountsAfterPermission" /\ Len(last.list) > 0
  /\ walletProvider # "walletconnect"
  /\ account = last.list[1] /\ accounts = last.list

\* C32: when resetProvider has run and no initEthereumProvider call was made
\* since, an initialisation that was in flight and now completes leaves the
\* session singleton null.
C32_ResetNotUndone ==
  [][\A i \in SessionIds :
       (last.op = "resetProvider" /\ SdkInitResolved(i)) => provider' = 0]_vars

\* C33: resetProvider leaves the persisted flags walletManuallyDisconnected and
\* walletConnectionActive as they were.
C33_ResetKeepsFlags == [][ClientResetProvider => UNCHANGED localStorage]_vars

\* C34: whenever account is not null it is an element of accounts.
C34_AccountInAccounts ==
  account # Null => \E i \in 1..Len(accounts) : accounts[i] = account

\* C35: when initiateWalletConnectFlow settles, its 30 s timer is not pending
\* any more (it is the firing of that timer that removes the handlers the flow
\* registered on the session; no step that settles the flow clears it).
C35_FlowCleansUp ==
  [][\A k \in CallIds :
       (calls[k].kind = "flow" /\ calls'[k].kind # "flow") => calls[k].timer # "set"]_vars

\* C36: the persisted flags walletConnectionActive and
\* walletManuallyDisconnected are never both 'true'.
C36_FlagsExclusive == ~(active /\ manual)

C38_FailedSwitchKeepsChain ==
  [][\A k \in CallIds :
       (calls[k].sess = 0 /\ (WcSwitchChainReply(k, "error") \/ WcAddChainReply(k, FALSE)))
         => currentChain' = calls[k].before]_vars

\* C39: whenever no connect or disconnect is in progress (loading and
\* disconnecting are false) and account is null, the provider id is null.
C39_ProviderIdAtRest ==
  (account = Null /\ ~isLoading /\ ~connecting /\ ~isDisconnecting) => providerId = Null

====
